---- MODULE Spec2Model ----
(***************************************************************************)
(* Model of the architectum blueprint generator core: the relationship     *)
(* graph (RelationshipMap), its detail-level projection and JSON round     *)
(* trip, the JSON mirror store (JSONMirrors) on a file system, and the     *)
(* change tracker (ChangeTracker.detect_changes).                          *)
(*                                                                         *)
(* Python values are modelled as tagged trees [t |-> tag, v |-> payload]:  *)
(* str, num, null, bool, list (a sequence of trees) and dict (a function   *)
(* from string keys to trees).  Python objects are records of attributes.  *)
(***************************************************************************)
EXTENDS Integers, Sequences, FiniteSets, Bags, TLC

VARIABLES
    relationship_map,  \* the RelationshipMap instance: [graph, nodes_by_type]
    held,              \* the objects returned by the last read, held by the caller
    json_mirrors,      \* the JSONMirrors instance: [root_path, mirror_path]
    fs,                \* the file system: path -> [kind, data]
    last               \* the last call: operation, arguments, outcome

vars == <<relationship_map, held, json_mirrors, fs, last>>

-----------------------------------------------------------------------------
(* Python values                                                           *)

Str(s) == [t |-> "str", v |-> s]
Num(n) == [t |-> "num", v |-> n]
Bool(b) == [t |-> "bool", v |-> b]
None == [t |-> "null", v |-> 0]
List(s) == [t |-> "list", v |-> s]
Dict(f) == [t |-> "dict", v |-> f]
EmptyDict == Dict(<<>>)
EmptyList == List(<<>>)

IsNone(x) == x.t = "null"

\* Python truthiness of a value (None, empty containers, 0 and "" are falsy).
Truthy(x) ==
    CASE x.t = "null" -> FALSE
      [] x.t = "bool" -> x.v
      [] x.t = "num" -> x.v # 0
      [] x.t = "str" -> x.v # ""
      [] x.t = "list" -> Len(x.v) > 0
      [] x.t = "dict" -> DOMAIN x.v # {}

\* `x or default`
OrElse(x, default) == IF Truthy(x) THEN x ELSE default

\* dict.get(key, default)
DictGet(d, key, default) == IF key \in DOMAIN d.v THEN d.v[key] ELSE default

\* d[key] = value, on a dict value
DictSet(d, key, value) ==
    Dict([k \in DOMAIN d.v \cup {key} |-> IF k = key THEN value ELSE d.v[k]])

\* result.update(other)
DictUpdate(d, other) ==
    Dict([k \in DOMAIN d.v \cup DOMAIN other.v |->
            IF k \in DOMAIN other.v THEN other.v[k] ELSE d.v[k]])

\* {key: d[key] for key in keep if key in d}
DictKeep(d, keep) == Dict([k \in DOMAIN d.v \cap keep |-> d.v[k]])

-----------------------------------------------------------------------------
(* len(json.dumps(value)) with the default separators ", " and ": "        *)

RECURSIVE Digits(_)
Digits(n) == IF n < 10 THEN 1 ELSE 1 + Digits(n \div 10)

RECURSIVE JsonLen(_)
RECURSIVE JsonLenItems(_, _)
RECURSIVE JsonLenKeys(_, _)

JsonLenItems(s, i) ==
    IF i > Len(s) THEN 0
    ELSE JsonLen(s[i]) + (IF i < Len(s) THEN 2 ELSE 0) + JsonLenItems(s, i + 1)

JsonLenKeys(f, keys) ==
    IF keys = {} THEN 0
    ELSE LET k == CHOOSE x \in keys : TRUE
         IN  Len(k) + 2 + 2 + JsonLen(f[k])
             + (IF Cardinality(keys) > 1 THEN 2 ELSE 0)
             + JsonLenKeys(f, keys \ {k})

JsonLen(x) ==
    CASE x.t = "str" -> Len(x.v) + 2
      [] x.t = "num" -> Digits(x.v)
      [] x.t = "null" -> 4
      [] x.t = "bool" -> IF x.v THEN 4 ELSE 5
      [] x.t = "list" -> 2 + JsonLenItems(x.v, 1)
      [] x.t = "dict" -> 2 + JsonLenKeys(x.v, DOMAIN x.v)

-----------------------------------------------------------------------------
(* models/detail_level.py, models/nodes.py                                 *)

MINIMAL == "minimal"
STANDARD == "standard"
DETAILED == "detailed"
DetailLevel == {MINIMAL, STANDARD, DETAILED}

NodeType == {"file", "directory", "function", "class", "method", "feature"}
RelationshipType == {"contains", "calls", "imports", "inherits", "implements"}

\* Node.__init__
Node(node_id, node_type, metadata) ==
    [id |-> node_id, type |-> node_type, metadata |-> OrElse(metadata, EmptyDict)]

FileNode(node_id, path, extension, metadata) ==
    [cls |-> "FileNode", path |-> path, extension |-> extension]
        @@ Node(node_id, "file", metadata)

DirectoryNode(node_id, path, metadata) ==
    [cls |-> "DirectoryNode", path |-> path] @@ Node(node_id, "directory", metadata)

FunctionNode(node_id, name, parameters, return_type, line_start, line_end, metadata) ==
    [cls |-> "FunctionNode", name |-> name,
     parameters |-> OrElse(parameters, EmptyList), return_type |-> return_type,
     line_start |-> line_start, line_end |-> line_end]
        @@ Node(node_id, "function", metadata)

ClassNode(node_id, name, properties, line_start, line_end, metadata) ==
    [cls |-> "ClassNode", name |-> name,
     properties |-> OrElse(properties, EmptyList),
     line_start |-> line_start, line_end |-> line_end]
        @@ Node(node_id, "class", metadata)

MethodNode(node_id, name, parameters, return_type, parent_class, line_start, line_end, metadata) ==
    [cls |-> "MethodNode", name |-> name,
     parameters |-> OrElse(parameters, EmptyList), return_type |-> return_type,
     parent_class |-> parent_class,
     line_start |-> line_start, line_end |-> line_end]
        @@ Node(node_id, "method", metadata)

FeatureNode(node_id, name, description, metadata) ==
    [cls |-> "FeatureNode", name |-> name, description |-> description]
        @@ Node(node_id, "feature", metadata)

\* Node.to_json and the subclasses' overrides (result.update).
NodeToJson(n) ==
    LET base == Dict([id |-> Str(n.id), type |-> Str(n.type), metadata |-> n.metadata])
    IN  CASE n.cls = "FileNode" ->
               DictUpdate(base, Dict([path |-> Str(n.path), extension |-> Str(n.extension)]))
          [] n.cls = "DirectoryNode" ->
               DictUpdate(base, Dict([path |-> Str(n.path)]))
          [] n.cls = "FunctionNode" ->
               DictUpdate(base, Dict([name |-> Str(n.name), parameters |-> n.parameters,
                                      return_type |-> n.return_type,
                                      line_start |-> n.line_start,
                                      line_end |-> n.line_end]))
          [] n.cls = "ClassNode" ->
               DictUpdate(base, Dict([name |-> Str(n.name), properties |-> n.properties,
                                      line_start |-> n.line_start,
                                      line_end |-> n.line_end]))
          [] n.cls = "MethodNode" ->
               DictUpdate(base, Dict([name |-> Str(n.name), parameters |-> n.parameters,
                                      return_type |-> n.return_type,
                                      parent_class |-> n.parent_class,
                                      line_start |-> n.line_start,
                                      line_end |-> n.line_end]))
          [] n.cls = "FeatureNode" ->
               DictUpdate(base, Dict([name |-> Str(n.name), description |-> Str(n.description)]))

\* A factory that builds every callable from its "type" as a FunctionNode.
NodeFromJsonMethodAsFunction(data) ==
    LET node_type == data.v["type"].v
        metadata == DictGet(data, "metadata", EmptyDict)
    IN  IF node_type \in {"function", "method"}
        THEN FunctionNode(data.v["id"].v, data.v["name"].v,
                          DictGet(data, "parameters", EmptyList),
                          DictGet(data, "return_type", None),
                          DictGet(data, "line_start", None),
                          DictGet(data, "line_end", None), metadata)
        ELSE IF node_type = "file"
        THEN FileNode(data.v["id"].v, data.v["path"].v, data.v["extension"].v, metadata)
        ELSE IF node_type = "directory"
        THEN DirectoryNode(data.v["id"].v, data.v["path"].v, metadata)
        ELSE IF node_type = "class"
        THEN ClassNode(data.v["id"].v, data.v["name"].v,
                       DictGet(data, "properties", EmptyList),
                       DictGet(data, "line_start", None),
                       DictGet(data, "line_end", None), metadata)
        ELSE FeatureNode(data.v["id"].v, data.v["name"].v,
                         DictGet(data, "description", Str("")).v, metadata)

\* Node.from_json: the factory keyed by the "type" discriminant.
NodeFromJson(data) ==
    LET node_type == data.v["type"].v
        node_id == data.v["id"].v
        metadata == DictGet(data, "metadata", EmptyDict)
    IN  CASE node_type = "file" ->
               FileNode(node_id, data.v["path"].v, data.v["extension"].v, metadata)
          [] node_type = "directory" ->
               DirectoryNode(node_id, data.v["path"].v, metadata)
          [] node_type = "function" ->
               FunctionNode(node_id, data.v["name"].v,
                            DictGet(data, "parameters", EmptyList),
                            DictGet(data, "return_type", None),
                            DictGet(data, "line_start", None),
                            DictGet(data, "line_end", None), metadata)
          [] node_type = "class" ->
               ClassNode(node_id, data.v["name"].v,
                         DictGet(data, "properties", EmptyList),
                         DictGet(data, "line_start", None),
                         DictGet(data, "line_end", None), metadata)
          [] node_type = "method" ->
               MethodNode(node_id, data.v["name"].v,
                          DictGet(data, "parameters", EmptyList),
                          DictGet(data, "return_type", None),
                          DictGet(data, "parent_class", None),
                          DictGet(data, "line_start", None),
                          DictGet(data, "line_end", None), metadata)
          [] node_type = "feature" ->
               FeatureNode(node_id, data.v["name"].v,
                           DictGet(data, "description", Str("")).v, metadata)

\* Relationship.__init__
Relationship(source_id, target_id, relationship_type, metadata) ==
    [source_id |-> source_id, target_id |-> target_id, type |-> relationship_type,
     metadata |-> OrElse(metadata, EmptyDict)]

ContainsRelationship(source_id, target_id, metadata) ==
    [cls |-> "ContainsRelationship"]
        @@ Relationship(source_id, target_id, "contains", metadata)

CallsRelationship(source_id, target_id, line_number, metadata) ==
    [cls |-> "CallsRelationship", line_number |-> line_number]
        @@ Relationship(source_id, target_id, "calls", metadata)

ImportsRelationship(source_id, target_id, metadata) ==
    [cls |-> "ImportsRelationship"]
        @@ Relationship(source_id, target_id, "imports", metadata)

InheritsRelationship(source_id, target_id, metadata) ==
    [cls |-> "InheritsRelationship"]
        @@ Relationship(source_id, target_id, "inherits", metadata)

ImplementsRelationship(source_id, target_id, metadata) ==
    [cls |-> "ImplementsRelationship"]
        @@ Relationship(source_id, target_id, "implements", metadata)

\* Relationship.to_json and CallsRelationship.to_json
RelationshipToJson(r) ==
    LET base == Dict([source_id |-> Str(r.source_id), target_id |-> Str(r.target_id),
                      type |-> Str(r.type), metadata |-> r.metadata])
    IN  IF r.cls = "CallsRelationship"
        THEN DictUpdate(base, Dict([line_number |-> r.line_number]))
        ELSE base

\* Relationship.from_json
RelationshipFromJson(data) ==
    LET relationship_type == data.v["type"].v
        source_id == data.v["source_id"].v
        target_id == data.v["target_id"].v
        metadata == DictGet(data, "metadata", EmptyDict)
    IN  CASE relationship_type = "contains" ->
               ContainsRelationship(source_id, target_id, metadata)
          [] relationship_type = "calls" ->
               CallsRelationship(source_id, target_id,
                                 DictGet(data, "line_number", None), metadata)
          [] relationship_type = "imports" ->
               ImportsRelationship(source_id, target_id, metadata)
          [] relationship_type = "inherits" ->
               InheritsRelationship(source_id, target_id, metadata)
          [] relationship_type = "implements" ->
               ImplementsRelationship(source_id, target_id, metadata)

\* Node.__eq__ / Relationship.__eq__
NodeEq(a, b) == a.id = b.id /\ a.type = b.type
RelEq(a, b) ==
    a.source_id = b.source_id /\ a.target_id = b.target_id /\ a.type = b.type

-----------------------------------------------------------------------------
(* networkx.DiGraph as used by RelationshipMap: node id -> node object,    *)
(* (source, target) -> relationship object.  One edge per ordered pair.    *)

NxEmpty == [nodes |-> <<>>, edges |-> <<>>]

\* DiGraph.add_node(id, node=node)
NxAddNode(g, id, node) ==
    [g EXCEPT !.nodes = [k \in DOMAIN g.nodes \cup {id} |->
                            IF k = id THEN node ELSE g.nodes[k]]]

\* An add_edge that keeps the attributes of an edge that is there already.
NxAddEdgeKeepFirst(g, s, t, r) ==
    [g EXCEPT !.edges = [e \in DOMAIN g.edges \cup {<<s, t>>} |->
                            IF e \in DOMAIN g.edges THEN g.edges[e] ELSE r]]

\* DiGraph.add_edge(s, t, relationship=r): an existing edge s -> t has its
\* attribute replaced.  Both endpoints are nodes when add_relationship calls it.
NxAddEdge(g, s, t, r) ==
    [g EXCEPT !.edges = [e \in DOMAIN g.edges \cup {<<s, t>>} |->
                            IF e = <<s, t>> THEN r ELSE g.edges[e]]]

\* A remove_node that leaves the adjacent edges in place.
NxRemoveNodeKeepEdges(g, id) ==
    [g EXCEPT !.nodes = [k \in DOMAIN g.nodes \ {id} |-> g.nodes[k]]]

\* A remove_node that removes the out-edges of the node only.
NxRemoveNodeOutEdgesOnly(g, id) ==
    [nodes |-> [k \in DOMAIN g.nodes \ {id} |-> g.nodes[k]],
     edges |-> [e \in {x \in DOMAIN g.edges : x[1] # id} |-> g.edges[e]]]

\* DiGraph.remove_node(id): removes the node and all adjacent edges.
NxRemoveNode(g, id) ==
    [nodes |-> [k \in DOMAIN g.nodes \ {id} |-> g.nodes[k]],
     edges |-> [e \in {x \in DOMAIN g.edges : x[1] # id /\ x[2] # id} |-> g.edges[e]]]

\* DiGraph.remove_edge(s, t)
NxRemoveEdge(g, s, t) ==
    [g EXCEPT !.edges = [e \in DOMAIN g.edges \ {<<s, t>>} |-> g.edges[e]]]

NxOutEdges(g, id) == {e \in DOMAIN g.edges : e[1] = id}
NxInEdges(g, id) == {e \in DOMAIN g.edges : e[2] = id}

-----------------------------------------------------------------------------
(* Copies.  A copy is [val, shared]: the copied object and the attributes  *)
(* of it whose container (dict or list) is still the very object the       *)
(* source holds, so that an in-place write to it is a write to the source. *)

ContainerAttrs(obj) ==
    {a \in DOMAIN obj \cap {"metadata", "parameters", "properties", "return_type"} :
        obj[a].t \in {"dict", "list"}}

\* copy.copy: a new object whose attributes are the source's own containers.
ShallowCopy(obj) == [val |-> obj, shared |-> ContainerAttrs(obj)]

\* copy.deepcopy: a new object graph, nothing shared with the source.
DeepCopy(obj) == [val |-> obj, shared |-> {}]

\* The type kept for a parameter at STANDARD level.
MinimalType(ty) ==
    LET minimal_type == Dict([name |-> DictGet(ty, "name", Str("any"))])
    IN  IF "is_optional" \in DOMAIN ty.v
        THEN DictSet(minimal_type, "is_optional", ty.v["is_optional"])
        ELSE minimal_type

\* The loop body over a FunctionNode's parameters at STANDARD level.
SimplifyParam(param) ==
    IF "type" \in DOMAIN param.v /\ ~IsNone(param.v["type"])
    THEN DictSet(param, "type", MinimalType(param.v["type"]))
    ELSE param

NodeMetadataToKeep == {"visibility", "deprecation", "access_level", "source_file"}
RelationshipMetadataToKeep == {"visibility", "call_type", "importance"}

\* RelationshipMap._apply_detail_level_to_node.  Returns the filtered copy
\* [val, shared] and src, the source object as the call leaves it.
ApplyDetailLevelToNode(node, detail_level) ==
    LET c == DeepCopy(node)
        n == c.val
    IN  IF detail_level = MINIMAL THEN
            LET m == [n EXCEPT !.metadata = EmptyDict]
            IN  IF n.cls \in {"FunctionNode", "MethodNode"}
                THEN [val |-> [m EXCEPT !.parameters = EmptyList, !.return_type = None],
                      shared |-> c.shared \ {"metadata", "parameters", "return_type"},
                      src |-> node]
                ELSE IF n.cls = "ClassNode"
                THEN [val |-> [m EXCEPT !.properties = EmptyList],
                      shared |-> c.shared \ {"metadata", "properties"},
                      src |-> node]
                ELSE [val |-> m, shared |-> c.shared \ {"metadata"}, src |-> node]
        ELSE IF detail_level = STANDARD THEN
            LET m == [n EXCEPT !.metadata = DictKeep(n.metadata, NodeMetadataToKeep)]
            IN  IF n.cls = "FunctionNode" /\ Truthy(n.parameters)
                THEN LET ps == List([i \in 1..Len(n.parameters.v) |->
                                        SimplifyParam(n.parameters.v[i])])
                     IN  [val |-> [m EXCEPT !.parameters = ps],
                          shared |-> c.shared \ {"metadata"},
                          \* param["type"] = minimal_type writes the dicts in place
                          src |-> IF "parameters" \in c.shared
                                  THEN [node EXCEPT !.parameters = ps]
                                  ELSE node]
                ELSE [val |-> m, shared |-> c.shared \ {"metadata"}, src |-> node]
        ELSE [val |-> n, shared |-> c.shared, src |-> node]

\* RelationshipMap._apply_detail_level_to_relationship
ApplyDetailLevelToRelationship(relationship, detail_level) ==
    LET c == DeepCopy(relationship)
        r == c.val
    IN  IF detail_level = MINIMAL THEN
            LET m == [r EXCEPT !.metadata = EmptyDict]
            IN  [val |-> IF r.cls = "CallsRelationship"
                         THEN [m EXCEPT !.line_number = None] ELSE m,
                 shared |-> c.shared \ {"metadata"}, src |-> relationship]
        ELSE IF detail_level = STANDARD THEN
            [val |-> [r EXCEPT !.metadata = DictKeep(r.metadata, RelationshipMetadataToKeep)],
             shared |-> c.shared \ {"metadata"}, src |-> relationship]
        ELSE [val |-> r, shared |-> c.shared, src |-> relationship]

-----------------------------------------------------------------------------
(* models/relationship_map.py: RelationshipMap.  A method is an operator   *)
(* on the instance `self` that returns [self, raised, ret, held]: the      *)
(* instance afterwards, the exception raised ("none" if none), the value   *)
(* returned, and the copies handed to the caller.  Lists whose order no    *)
(* caller relies on are returned as sets.                                  *)

Return(self, ret, copies) ==
    [self |-> self, raised |-> "none", ret |-> ret, held |-> copies]
Raise(self, exc) ==
    [self |-> self, raised |-> exc, ret |-> None, held |-> {}]

\* RelationshipMap.__init__
NewRelationshipMap ==
    [graph |-> NxEmpty, nodes_by_type |-> [ty \in NodeType |-> {}]]

\* `node_id in self.graph`
InGraph(self, node_id) == node_id \in DOMAIN self.graph.nodes

\* self.graph.nodes[node_id]["node"]
StoredNode(self, node_id) == self.graph.nodes[node_id]

\* The instance after the stored objects of `ids` were left as srcOf[id].
WithNodes(self, ids, srcOf) ==
    [self EXCEPT !.graph.nodes =
        [k \in DOMAIN self.graph.nodes |-> IF k \in ids THEN srcOf[k] ELSE @[k]]]
WithEdges(self, es, srcOf) ==
    [self EXCEPT !.graph.edges =
        [e \in DOMAIN self.graph.edges |-> IF e \in es THEN srcOf[e] ELSE @[e]]]

NodeCopy(id, f) == [kind |-> "node", key |-> <<id>>, val |-> f.val, shared |-> f.shared]
RelCopy(e, f) == [kind |-> "rel", key |-> e, val |-> f.val, shared |-> f.shared]

\* An add_node without the membership test: the stored node is replaced.
add_node_overwrite(self, node) ==
    Return([graph |-> NxAddNode(self.graph, node.id, node),
            nodes_by_type |-> [self.nodes_by_type EXCEPT ![node.type] = @ \cup {node.id}]],
           None, {})

\* RelationshipMap.add_node
add_node(self, node) ==
    IF InGraph(self, node.id)
    THEN Raise(self, "ModelError")
    ELSE Return([graph |-> NxAddNode(self.graph, node.id, node),
                 nodes_by_type |-> [self.nodes_by_type EXCEPT
                                       ![node.type] = @ \cup {node.id}]],
                None, {})

\* An add_relationship that tests the source only.
add_relationship_source_only(self, relationship) ==
    IF ~InGraph(self, relationship.source_id)
    THEN Raise(self, "ModelError")
    ELSE Return([self EXCEPT !.graph = NxAddEdge(self.graph, relationship.source_id,
                                                 relationship.target_id, relationship)],
                None, {})

\* RelationshipMap.add_relationship
add_relationship(self, relationship) ==
    IF ~InGraph(self, relationship.source_id)
    THEN Raise(self, "ModelError")
    ELSE IF ~InGraph(self, relationship.target_id)
    THEN Raise(self, "ModelError")
    ELSE Return([self EXCEPT !.graph = NxAddEdge(self.graph, relationship.source_id,
                                                 relationship.target_id, relationship)],
                None, {})

get_node(self, node_id, detail_level) ==
    IF ~InGraph(self, node_id)
    THEN Return(self, None, {})
    ELSE LET f == ApplyDetailLevelToNode(StoredNode(self, node_id), detail_level)
         IN  Return(WithNodes(self, {node_id}, [k \in {node_id} |-> f.src]),
                    f.val, {NodeCopy(node_id, f)})

\* self.nodes_by_type[node_type] raises KeyError for a key that is no NodeType.
get_nodes_by_type(self, node_type, detail_level) ==
    IF node_type \notin DOMAIN self.nodes_by_type
    THEN Raise(self, "KeyError")
    ELSE LET ids == self.nodes_by_type[node_type]
             f == [k \in ids |-> ApplyDetailLevelToNode(StoredNode(self, k), detail_level)]
         IN  Return(WithNodes(self, ids, [k \in ids |-> f[k].src]),
                    {f[k].val : k \in ids}, {NodeCopy(k, f[k]) : k \in ids})

\* The filtered copies of the relationships on the edges `es`.
FilteredRelationships(self, es, detail_level) ==
    LET f == [e \in es |-> ApplyDetailLevelToRelationship(self.graph.edges[e], detail_level)]
    IN  Return(WithEdges(self, es, [e \in es |-> f[e].src]),
               {f[e].val : e \in es}, {RelCopy(e, f[e]) : e \in es})

get_relationship(self, source_id, target_id, detail_level) ==
    IF <<source_id, target_id>> \notin DOMAIN self.graph.edges
    THEN Return(self, None, {})
    ELSE LET f == ApplyDetailLevelToRelationship(
                      self.graph.edges[<<source_id, target_id>>], detail_level)
         IN  Return(WithEdges(self, {<<source_id, target_id>>},
                              [e \in {<<source_id, target_id>>} |-> f.src]),
                    f.val, {RelCopy(<<source_id, target_id>>, f)})

\* A get_outgoing_relationships without the membership test.
get_outgoing_relationships_lenient(self, node_id, detail_level) ==
    FilteredRelationships(self, NxOutEdges(self.graph, node_id), detail_level)

\* RelationshipMap.get_outgoing_relationships
get_outgoing_relationships(self, node_id, detail_level) ==
    IF ~InGraph(self, node_id)
    THEN Raise(self, "ModelError")
    ELSE FilteredRelationships(self, NxOutEdges(self.graph, node_id), detail_level)

get_incoming_relationships(self, node_id, detail_level) ==
    IF ~InGraph(self, node_id)
    THEN Raise(self, "ModelError")
    ELSE FilteredRelationships(self, NxInEdges(self.graph, node_id), detail_level)

remove_node(self, node_id) ==
    IF ~InGraph(self, node_id)
    THEN Raise(self, "ModelError")
    ELSE LET node == StoredNode(self, node_id)
         IN  Return([graph |-> NxRemoveNode(self.graph, node_id),
                     nodes_by_type |-> [self.nodes_by_type EXCEPT
                                           ![node.type] = @ \ {node_id}]],
                    None, {})

remove_relationship(self, source_id, target_id) ==
    IF <<source_id, target_id>> \notin DOMAIN self.graph.edges
    THEN Raise(self, "ModelError")
    ELSE Return([self EXCEPT !.graph = NxRemoveEdge(self.graph, source_id, target_id)],
                None, {})

clear(self) == Return(NewRelationshipMap, None, {})

node_count(self) == Cardinality(DOMAIN self.graph.nodes)
relationship_count(self) == Cardinality(DOMAIN self.graph.edges)

\* A set as a list, in some order.
RECURSIVE SeqOf(_)
SeqOf(S) ==
    IF S = {} THEN <<>>
    ELSE LET x == CHOOSE y \in S : TRUE IN <<x>> \o SeqOf(S \ {x})

to_json(self, detail_level) ==
    LET ids == DOMAIN self.graph.nodes
        es == DOMAIN self.graph.edges
        fn == [k \in ids |-> ApplyDetailLevelToNode(StoredNode(self, k), detail_level)]
        fr == [e \in es |-> ApplyDetailLevelToRelationship(self.graph.edges[e], detail_level)]
        idl == SeqOf(ids)
        el == SeqOf(es)
        after == WithEdges(WithNodes(self, ids, [k \in ids |-> fn[k].src]),
                           es, [e \in es |-> fr[e].src])
    IN  Return(after,
               Dict([nodes |-> List([i \in 1..Len(idl) |-> NodeToJson(fn[idl[i]].val)]),
                     relationships |->
                        List([i \in 1..Len(el) |-> RelationshipToJson(fr[el[i]].val)]),
                     detail_level |-> Str(detail_level)]),
               {NodeCopy(k, fn[k]) : k \in ids} \cup {RelCopy(e, fr[e]) : e \in es})

\* The loops of from_json: add each node, then each relationship; the
\* first exception ends the call.
RECURSIVE AddNodesFromJson(_, _, _)
AddNodesFromJson(r, items, i) ==
    IF i > Len(items) \/ r.raised # "none" THEN r
    ELSE AddNodesFromJson(add_node(r.self, NodeFromJson(items[i])), items, i + 1)

RECURSIVE AddRelationshipsFromJson(_, _, _)
AddRelationshipsFromJson(r, items, i) ==
    IF i > Len(items) \/ r.raised # "none" THEN r
    ELSE AddRelationshipsFromJson(
             add_relationship(r.self, RelationshipFromJson(items[i])), items, i + 1)

\* RelationshipMap.from_json (a classmethod: returns the new instance).
from_json(data) ==
    LET r1 == AddNodesFromJson(Return(NewRelationshipMap, None, {}), data.v["nodes"].v, 1)
        r2 == AddRelationshipsFromJson(r1, data.v["relationships"].v, 1)
    IN  IF r2.raised # "none" THEN r2 ELSE Return(r2.self, r2.self, {})

-----------------------------------------------------------------------------
(* The callers of a RelationshipMap: the inputs and the actions.           *)

MaxRels == 2
MaxSampleRels == 1

NodeIds == {"n1", "n2"}

SampleType ==
    Dict([name |-> Str("List"), is_optional |-> Bool(FALSE), is_list |-> Bool(TRUE),
          subtypes |-> List(<<Dict([name |-> Str("int")])>>)])
SampleParameters == List(<<Dict([name |-> Str("x"), type |-> SampleType])>>)
SampleProperties ==
    List(<<Dict([name |-> Str("p"), type |-> SampleType, visibility |-> Str("private")])>>)
SampleMetadata == Dict([visibility |-> Str("public"), author |-> Str("me")])
SampleCallMetadata == Dict([call_type |-> Str("direct"), note |-> Str("x")])

\* The nodes a caller adds under an id.
NodeInputs(id) ==
    { FileNode(id, "a.py", ".py", None),
      FunctionNode(id, "f", SampleParameters, Dict([name |-> Str("int")]),
                   Num(1), Num(5), SampleMetadata) }

\* The relationships a caller adds between two ids.
RelInputs(s, t) ==
    { ContainsRelationship(s, t, None),
      CallsRelationship(s, t, Num(12), SampleCallMetadata) }

\* One node of every kind, one relationship of every kind.
RichNodes(id) ==
    NodeInputs(id) \cup
    { DirectoryNode(id, "src", SampleMetadata),
      ClassNode(id, "C", SampleProperties, Num(1), Num(9), SampleMetadata),
      MethodNode(id, "m", SampleParameters, Dict([name |-> Str("int")]), Str("n2"),
                 Num(2), Num(3), SampleMetadata),
      FeatureNode(id, "feat", "what it does", None) }

RichRels(s, t) ==
    RelInputs(s, t) \cup
    { CallsRelationship(s, t, Num(12), None),
      ImportsRelationship(s, t, SampleCallMetadata),
      InheritsRelationship(s, t, None),
      ImplementsRelationship(s, t, None) }

\* The map a caller builds by adding the nodes ns, then the relationships rs.
RECURSIVE AddAllNodes(_, _, _)
AddAllNodes(self, ns, i) ==
    IF i > Len(ns) THEN self ELSE AddAllNodes(add_node(self, ns[i]).self, ns, i + 1)

RECURSIVE AddAllRelationships(_, _, _)
AddAllRelationships(self, rs, i) ==
    IF i > Len(rs) THEN self
    ELSE AddAllRelationships(add_relationship(self, rs[i]).self, rs, i + 1)

BuildMap(ns, rs) == AddAllRelationships(AddAllNodes(NewRelationshipMap, ns, 1), rs, 1)

RECURSIVE RelLists(_, _)
RelLists(ids, k) ==
    IF k = 0 THEN {<<>>}
    ELSE LET shorter == RelLists(ids, k - 1)
         IN  shorter \cup
             {Append(l, r) : l \in shorter, r \in UNION {RichRels("n1", t) : t \in ids}}

SampleMaps ==
    {BuildMap(<<a>>, rs) : a \in RichNodes("n1"), rs \in RelLists({"n1"}, MaxSampleRels)}
    \cup {BuildMap(<<a, FileNode("n2", "b.py", ".py", SampleMetadata)>>, rs) :
            a \in RichNodes("n1"), rs \in RelLists({"n1", "n2"}, MaxSampleRels)}

\* One call of a method that returns a list: the instance afterwards and
\* the record of the call, with the items returned.
Call(op, args, r) ==
    /\ relationship_map' = r.self
    /\ held' = r.held
    /\ last' = [op |-> op, args |-> args, raised |-> r.raised,
                ret |-> IF r.raised = "none" THEN r.ret ELSE {}]
    /\ UNCHANGED <<json_mirrors, fs>>

\* One call of a method that returns one value (or None).
CallOne(op, args, r) == Call(op, args, [r EXCEPT !.ret = {@}])

NoArgs == [self |-> "relationship_map"]

AddNode ==
    \E id \in NodeIds : \E node \in NodeInputs(id) :
        CallOne("add_node", [node |-> node], add_node(relationship_map, node))

AddRelationship ==
    \E s \in NodeIds, t \in NodeIds : \E r \in RelInputs(s, t) :
        /\ \/ relationship_count(relationship_map) < MaxRels
           \/ <<s, t>> \in DOMAIN relationship_map.graph.edges
        /\ CallOne("add_relationship", [relationship |-> r], add_relationship(relationship_map, r))

RemoveNode ==
    \E id \in NodeIds :
        CallOne("remove_node", [node_id |-> id], remove_node(relationship_map, id))

RemoveRelationship ==
    \E s \in NodeIds, t \in NodeIds :
        CallOne("remove_relationship", [source_id |-> s, target_id |-> t], remove_relationship(relationship_map, s, t))

Clear == CallOne("clear", NoArgs, clear(relationship_map))

GetNode ==
    \E id \in NodeIds, level \in DetailLevel :
        CallOne("get_node", [node_id |-> id, detail_level |-> level], get_node(relationship_map, id, level))

GetNodesByType ==
    \E ty \in NodeType, level \in DetailLevel :
        Call("get_nodes_by_type", [node_type |-> ty, detail_level |-> level],
             get_nodes_by_type(relationship_map, ty, level))

GetRelationship ==
    \E s \in NodeIds, t \in NodeIds, level \in DetailLevel :
        CallOne("get_relationship",
                [source_id |-> s, target_id |-> t, detail_level |-> level],
             get_relationship(relationship_map, s, t, level))

GetOutgoingRelationships ==
    \E id \in NodeIds, level \in DetailLevel :
        Call("get_outgoing_relationships", [node_id |-> id, detail_level |-> level],
             get_outgoing_relationships(relationship_map, id, level))

GetIncomingRelationships ==
    \E id \in NodeIds, level \in DetailLevel :
        Call("get_incoming_relationships", [node_id |-> id, detail_level |-> level],
             get_incoming_relationships(relationship_map, id, level))

ToJson ==
    \E level \in DetailLevel :
        CallOne("to_json", [detail_level |-> level], to_json(relationship_map, level))

\* from_json(self.to_json(DETAILED)): the new instance is the value returned.
RoundTrip ==
    LET j == to_json(relationship_map, DETAILED)
        r == from_json(j.ret)
    IN  CallOne("round_trip", NoArgs, [r EXCEPT !.self = j.self])

\* The caller writes in place into a container of a copy it was handed
\* (container.clear()) and lets go of the copies.  A container shared with
\* the stored object is the stored object's container.
MutateHeld ==
    \E h \in held : \E a \in ContainerAttrs(h.val) :
        LET empty == IF h.val[a].t = "dict" THEN EmptyDict ELSE EmptyList
            stored == IF a \notin h.shared THEN relationship_map
                      ELSE IF h.kind = "node"
                      THEN [relationship_map EXCEPT !.graph.nodes[h.key[1]][a] = empty]
                      ELSE [relationship_map EXCEPT !.graph.edges[h.key][a] = empty]
        IN  /\ relationship_map' = stored
            /\ held' = {}
            /\ last' = [op |-> "mutate", args |-> [kind |-> h.kind, key |-> h.key, attr |-> a],
                        raised |-> "none", ret |-> {None}]
            /\ UNCHANGED <<json_mirrors, fs>>

NoCall == [op |-> "init", args |-> NoArgs, raised |-> "none", ret |-> {None}]

NoFiles ==
    /\ json_mirrors = [root_path |-> <<>>, mirror_path |-> <<>>]
    /\ fs = <<>>

\* A RelationshipMap and its callers.
Init ==
    /\ relationship_map = NewRelationshipMap
    /\ held = {}
    /\ last = NoCall
    /\ NoFiles

Next ==
    \/ AddNode
    \/ AddRelationship
    \/ RemoveNode
    \/ RemoveRelationship
    \/ Clear
    \/ GetNode
    \/ GetNodesByType
    \/ GetRelationship
    \/ GetOutgoingRelationships
    \/ GetIncomingRelationships

Spec == Init /\ [][Next]_vars

\* The readers of a populated RelationshipMap.
InitProjection ==
    /\ relationship_map \in SampleMaps
    /\ held = {}
    /\ last = NoCall
    /\ NoFiles

NextProjection ==
    \/ GetNode
    \/ GetNodesByType
    \/ GetRelationship
    \/ GetOutgoingRelationships
    \/ GetIncomingRelationships
    \/ ToJson
    \/ RoundTrip
    \/ MutateHeld

SpecProjection == InitProjection /\ [][NextProjection]_vars

-----------------------------------------------------------------------------
(* Properties of RelationshipMap under Spec.                               *)

\* C1: after any sequence of add_node, add_relationship, remove_node,
\* remove_relationship and clear, every stored relationship has its source_id
\* and its target_id among the nodes of the graph (no dangling relationship).
C1_NoDanglingRelationship ==
    \A e \in DOMAIN relationship_map.graph.edges :
        LET r == relationship_map.graph.edges[e]
        IN  /\ InGraph(relationship_map, r.source_id)
            /\ InGraph(relationship_map, r.target_id)
            /\ e = <<r.source_id, r.target_id>>

\* A node was removed and a node and a relationship are still stored.
C1_Witness ==
    /\ last.op = "remove_node"
    /\ last.raised = "none"
    /\ node_count(relationship_map) = 1
    /\ relationship_count(relationship_map) = 1

\* C2: add_node(n) with n.id absent succeeds and get_node(n.id) then returns a
\* node with the id and the kind of n; with n.id present it raises the
\* integrity error and leaves the whole map (node set, relationship set and the
\* node stored under that id) unchanged.
C2_AddNode ==
    [][ last'.op = "add_node" =>
          LET n == last'.args.node
          IN  IF InGraph(relationship_map, n.id)
              THEN /\ last'.raised = "ModelError"
                   /\ relationship_map' = relationship_map
              ELSE /\ last'.raised = "none"
                   /\ \A level \in DetailLevel :
                        LET got == get_node(relationship_map', n.id, level)
                        IN  /\ got.raised = "none"
                            /\ got.ret # None
                            /\ NodeEq(got.ret, n)
                   /\ DOMAIN relationship_map'.graph.nodes =
                         DOMAIN relationship_map.graph.nodes \cup {n.id}
        ]_vars

\* add_node was refused for an id that is stored with another node object.
C2_Witness ==
    /\ last.op = "add_node"
    /\ last.raised = "ModelError"
    /\ InGraph(relationship_map, last.args.node.id)
    /\ StoredNode(relationship_map, last.args.node.id) # last.args.node

\* C3: add_relationship(r) raises the integrity error and leaves the map
\* unchanged when r.source_id or r.target_id is not a node; otherwise it
\* succeeds and r is returned by get_outgoing_relationships(r.source_id) and by
\* get_incoming_relationships(r.target_id).
C3_AddRelationship ==
    [][ last'.op = "add_relationship" =>
          LET r == last'.args.relationship
          IN  IF ~InGraph(relationship_map, r.source_id)
                 \/ ~InGraph(relationship_map, r.target_id)
              THEN /\ last'.raised = "ModelError"
                   /\ relationship_map' = relationship_map
              ELSE /\ last'.raised = "none"
                   /\ r \in get_outgoing_relationships(
                                relationship_map', r.source_id, DETAILED).ret
                   /\ r \in get_incoming_relationships(
                                relationship_map', r.target_id, DETAILED).ret
                   /\ \E x \in get_outgoing_relationships(
                                   relationship_map', r.source_id, STANDARD).ret :
                        RelEq(x, r)
                   /\ \E x \in get_incoming_relationships(
                                   relationship_map', r.target_id, STANDARD).ret :
                        RelEq(x, r)
        ]_vars

\* add_relationship was refused because only its target is missing.
C3_Witness ==
    /\ last.op = "add_relationship"
    /\ last.raised = "ModelError"
    /\ InGraph(relationship_map, last.args.relationship.source_id)
    /\ ~InGraph(relationship_map, last.args.relationship.target_id)

\* C4 as stated: remove_node(id) removes only the node; the relationships
\* with id as source or target are all still stored afterwards.
C4_RemoveNodeKeepsRelationships ==
    [][ (last'.op = "remove_node" /\ last'.raised = "none") =>
          DOMAIN relationship_map'.graph.edges = DOMAIN relationship_map.graph.edges
        ]_vars

\* C4: remove_node(id) of a stored id removes the node together with every
\* relationship that has id as source or target, and leaves every other node
\* and relationship as it was; for an id not stored it raises and changes
\* nothing.
C4_RemoveNodeCascades ==
    [][ last'.op = "remove_node" =>
          LET id == last'.args.node_id
              before == relationship_map.graph
              after == relationship_map'.graph
          IN  IF ~InGraph(relationship_map, id)
              THEN last'.raised = "ModelError" /\ relationship_map' = relationship_map
              ELSE /\ last'.raised = "none"
                   /\ DOMAIN after.nodes = DOMAIN before.nodes \ {id}
                   /\ \A k \in DOMAIN after.nodes : after.nodes[k] = before.nodes[k]
                   /\ DOMAIN after.edges =
                         {e \in DOMAIN before.edges : e[1] # id /\ e[2] # id}
                   /\ \A e \in DOMAIN after.edges : after.edges[e] = before.edges[e]
        ]_vars

\* remove_node("n1") succeeded and the relationship from n2 to n2 is the only
\* thing left next to n2.
C4_Witness ==
    /\ last.op = "remove_node"
    /\ last.raised = "none"
    /\ last.args.node_id = "n1"
    /\ DOMAIN relationship_map.graph.edges = {<<"n2", "n2">>}

\* C5: get_node of an absent id returns None without raising;
\* get_outgoing_relationships and get_incoming_relationships of an absent id
\* raise; for a stored node without relationships in that direction they
\* return the empty list; none of the queries changes the map.
C5_Queries ==
    [][ /\ last'.op \in {"get_node", "get_nodes_by_type", "get_relationship",
                         "get_outgoing_relationships", "get_incoming_relationships"}
            => relationship_map' = relationship_map
        /\ last'.op = "get_node" =>
              /\ last'.raised = "none"
              /\ ~InGraph(relationship_map, last'.args.node_id) => last'.ret = {None}
        /\ last'.op = "get_outgoing_relationships" =>
              IF ~InGraph(relationship_map, last'.args.node_id)
              THEN last'.raised = "ModelError"
              ELSE /\ last'.raised = "none"
                   /\ NxOutEdges(relationship_map.graph, last'.args.node_id) = {}
                        => last'.ret = {}
        /\ last'.op = "get_incoming_relationships" =>
              IF ~InGraph(relationship_map, last'.args.node_id)
              THEN last'.raised = "ModelError"
              ELSE /\ last'.raised = "none"
                   /\ NxInEdges(relationship_map.graph, last'.args.node_id) = {}
                        => last'.ret = {}
        ]_vars

\* get_outgoing_relationships of an absent id raised while the other node,
\* with its relationship, is stored.
C5_Witness ==
    /\ last.op = "get_outgoing_relationships"
    /\ last.raised = "ModelError"
    /\ ~InGraph(relationship_map, last.args.node_id)
    /\ relationship_count(relationship_map) = 1

-----------------------------------------------------------------------------
(* Properties of the reads and of the JSON form under SpecProjection.      *)

\* C6: reads are copy-on-read.  No read at any detail level (get_node,
\* get_nodes_by_type, get_relationship, get_outgoing_relationships,
\* get_incoming_relationships, to_json) and no in-place write by the caller to
\* an object it was returned changes the map, and a DETAILED read afterwards
\* returns every node and relationship exactly as it was stored before.
C6_CopyOnRead ==
    [][ last'.op \in {"get_node", "get_nodes_by_type", "get_relationship",
                      "get_outgoing_relationships", "get_incoming_relationships",
                      "to_json", "round_trip", "mutate"} =>
          /\ relationship_map' = relationship_map
          /\ \A id \in DOMAIN relationship_map.graph.nodes :
                get_node(relationship_map', id, DETAILED).ret
                    = StoredNode(relationship_map, id)
          /\ \A e \in DOMAIN relationship_map.graph.edges :
                get_relationship(relationship_map', e[1], e[2], DETAILED).ret
                    = relationship_map.graph.edges[e]
        ]_vars

\* The caller emptied the parameters of a node copy it was returned and the
\* stored node still has its parameters.
C6_Witness ==
    /\ last.op = "mutate"
    /\ last.args.kind = "node"
    /\ last.args.attr = "parameters"
    /\ StoredNode(relationship_map, last.args.key[1]).parameters = SampleParameters

\* C7 as stated: for every map the serialized text of to_json(MINIMAL) is no
\* longer than that of to_json(STANDARD), which is no longer than that of
\* to_json(DETAILED).
C7_SizeMonotonic ==
    LET size(level) == JsonLen(to_json(relationship_map, level).ret)
    IN  size(MINIMAL) <= size(STANDARD) /\ size(STANDARD) <= size(DETAILED)

\* C8: from_json(to_json(DETAILED)) succeeds and yields a map with the same
\* node count and relationship count, the same node ids with the same kinds,
\* and the same (source, target) pairs with the same relationship kinds.
C8_RoundTrip ==
    last.op = "round_trip" =>
        /\ last.raised = "none"
        /\ \E m \in last.ret :
            /\ node_count(m) = node_count(relationship_map)
            /\ relationship_count(m) = relationship_count(relationship_map)
            /\ DOMAIN m.graph.nodes = DOMAIN relationship_map.graph.nodes
            /\ \A id \in DOMAIN m.graph.nodes :
                  /\ StoredNode(m, id).id = id
                  /\ StoredNode(m, id).type = StoredNode(relationship_map, id).type
                  /\ StoredNode(m, id).cls = StoredNode(relationship_map, id).cls
            /\ DOMAIN m.graph.edges = DOMAIN relationship_map.graph.edges
            /\ \A e \in DOMAIN m.graph.edges :
                  m.graph.edges[e].type = relationship_map.graph.edges[e].type
            /\ \A ty \in NodeType : m.nodes_by_type[ty] = relationship_map.nodes_by_type[ty]

\* A map with a method node, a second node and a relationship was written and
\* read back.
C8_Witness ==
    /\ last.op = "round_trip"
    /\ last.raised = "none"
    /\ node_count(relationship_map) = 2
    /\ relationship_count(relationship_map) = 1
    /\ StoredNode(relationship_map, "n1").type = "method"

-----------------------------------------------------------------------------
(* The file system as os and os.path show it.  A name is the sequence of   *)
(* the parts between its dots ("a.py" is <<"a", "py">>, "." is <<"", "">>, *)
(* "..json" is <<"", "", "json">>); an absolute path is the sequence of    *)
(* its names; fs maps every existing path to its entry.                    *)

Dot == <<"", "">>
DotDot == <<"", "", "">>

\* f"{name}.json"
NameAddExt(name, ext) == Append(name, ext)

\* name.endswith(".json")
EndsWithExt(name, ext) == Len(name) >= 2 /\ name[Len(name)] = ext

\* os.path.splitext on a name: the last dot splits, unless only dots precede it.
SplitExt(name) ==
    IF Len(name) >= 2 /\ \E i \in 1..(Len(name) - 1) : name[i] # ""
    THEN [root |-> SubSeq(name, 1, Len(name) - 1), ext |-> <<"", name[Len(name)]>>]
    ELSE [root |-> name, ext |-> <<"">>]

DirEntry == [kind |-> "dir"]
\* A file as open(path, "w") leaves it: its bytes, readable and writable.
FileEntry(content) == [kind |-> "file", content |-> content, mode |-> "rw"]
Bytes(n) == [t |-> "bytes", v |-> n]

\* open(path, "r") and open(path, "w") on an existing file succeed.
Readable(f, path) == f[path].mode \in {"rw", "r"}
Writable(f, path) == f[path].mode \in {"rw", "w"}

Exists(f, path) == path \in DOMAIN f
IsFile(f, path) == path \in DOMAIN f /\ f[path].kind = "file"
IsDir(f, path) == path \in DOMAIN f /\ f[path].kind = "dir"

\* abs_file_path.startswith(abs_path + os.sep)
IsUnder(path, top) == Len(path) > Len(top) /\ SubSeq(path, 1, Len(top)) = top

DirName(path) == SubSeq(path, 1, Len(path) - 1)
BaseName(path) == path[Len(path)]

\* os.makedirs(path, exist_ok=True)
MakeDirs(f, path) ==
    [q \in DOMAIN f \cup {SubSeq(path, 1, i) : i \in 1..Len(path)} |->
        IF q \in DOMAIN f THEN f[q] ELSE DirEntry]

\* open(path, "w").write(content)
WriteEntry(f, path, content) ==
    [q \in DOMAIN f \cup {path} |-> IF q = path THEN FileEntry(content) ELSE f[q]]

\* os.remove(path)
RemoveEntry(f, path) == [q \in DOMAIN f \ {path} |-> f[q]]

\* The files os.walk(top) yields, joined to their directories.
WalkFiles(f, top) == {q \in DOMAIN f : IsUnder(q, top) /\ f[q].kind = "file"}

RECURSIVE CommonPrefixLen(_, _, _)
CommonPrefixLen(a, b, k) ==
    IF k < Len(a) /\ k < Len(b) /\ a[k + 1] = b[k + 1]
    THEN CommonPrefixLen(a, b, k + 1) ELSE k

\* os.path.relpath(path, start), as the sequence of the names of the result.
RelPath(path, start) ==
    LET k == CommonPrefixLen(path, start, 0)
        rel == [i \in 1..(Len(start) - k) |-> DotDot] \o SubSeq(path, k + 1, Len(path))
    IN  IF rel = <<>> THEN <<Dot>> ELSE rel

\* hashlib.sha256(content).hexdigest(): distinct contents, distinct digests.
Sha256(content) == Str(<<"sha256", content>>)

-----------------------------------------------------------------------------
(* models/json_mirrors.py.  A method of JSONMirrors is an operator on the  *)
(* instance `self` and the file system f that returns [fs, raised, ret]:   *)
(* the file system afterwards, the exception raised, the value returned.   *)

FsReturn(f, ret) == [fs |-> f, raised |-> "none", ret |-> ret]
FsRaise(f, exc) == [fs |-> f, raised |-> exc, ret |-> None]

\* FileContent.__init__
FileContent(path, extension, elements, imports, source_hash) ==
    [cls |-> "FileContent", path |-> path, extension |-> extension,
     elements |-> OrElse(elements, EmptyDict), imports |-> OrElse(imports, EmptyList),
     source_hash |-> source_hash]

\* FileContent.to_json (the elements are written as they are).
FileContentToJson(c, detail_level) ==
    IF detail_level = MINIMAL
    THEN Dict([path |-> Str(c.path), extension |-> Str(c.extension),
               element_count |-> Num(Cardinality(DOMAIN c.elements.v)),
               import_count |-> Num(Len(c.imports.v))])
    ELSE LET result == Dict([path |-> Str(c.path), extension |-> Str(c.extension),
                             elements |-> c.elements, imports |-> c.imports])
             hashed == IF ~IsNone(c.source_hash)
                       THEN DictSet(result, "source_hash", c.source_hash) ELSE result
         IN  IF detail_level = DETAILED
             THEN DictSet(hashed, "detail_level", Str(detail_level)) ELSE hashed

\* FileContent.from_json
FileContentFromJson(data) ==
    IF "elements" \notin DOMAIN data.v
    THEN FileContent(data.v["path"].v, data.v["extension"].v, EmptyDict, EmptyList,
                     DictGet(data, "source_hash", None))
    ELSE FileContent(data.v["path"].v, data.v["extension"].v, data.v["elements"],
                     DictGet(data, "imports", EmptyList),
                     DictGet(data, "source_hash", None))

\* DirectoryContent.__init__
DirectoryContent(path, files, subdirectories) ==
    [cls |-> "DirectoryContent", path |-> path,
     files |-> OrElse(files, EmptyList), subdirectories |-> OrElse(subdirectories, EmptyList)]

\* DirectoryContent.to_json
DirectoryContentToJson(c, detail_level) ==
    IF detail_level = MINIMAL
    THEN Dict([path |-> Str(c.path), file_count |-> Num(Len(c.files.v)),
               subdirectory_count |-> Num(Len(c.subdirectories.v))])
    ELSE Dict([path |-> Str(c.path), files |-> c.files, subdirectories |-> c.subdirectories])

\* DirectoryContent.from_json
DirectoryContentFromJson(data) ==
    IF "files" \notin DOMAIN data.v
    THEN DirectoryContent(data.v["path"].v, EmptyList, EmptyList)
    ELSE DirectoryContent(data.v["path"].v, data.v["files"],
                          DictGet(data, "subdirectories", EmptyList))

\* JSONMirrors.__init__: the instance, and the file system with its mirror root.
JSONMirrors(f, root_path, mirror_path) ==
    FsReturn(MakeDirs(f, mirror_path), [root_path |-> root_path, mirror_path |-> mirror_path])

\* The mirror file of the relative path, after os.makedirs of its directory.
MirrorFileOf(self, f, rel_path) ==
    FsReturn(MakeDirs(f, self.mirror_path \o DirName(rel_path)),
             Append(self.mirror_path \o DirName(rel_path),
                    NameAddExt(BaseName(rel_path), "json")))

get_mirror_path(self, f, source_path) ==
    MirrorFileOf(self, f, RelPath(source_path, self.root_path))

\* The content object built from the loaded JSON of a mirror file.
ContentFromJson(data) ==
    IF "elements" \in DOMAIN data.v \/ "element_count" \in DOMAIN data.v
    THEN FileContentFromJson(data)
    ELSE DirectoryContentFromJson(data)

\* get_mirrored_content once mirror_path is known (m = [fs, ret]).
LoadMirror(m) ==
    IF ~Exists(m.fs, m.ret) THEN FsReturn(m.fs, None)
    ELSE IF ~IsFile(m.fs, m.ret) THEN FsReturn(m.fs, None)      \* open raised: None
    ELSE IF ~Readable(m.fs, m.ret) THEN FsReturn(m.fs, None)    \* open raised: None
    ELSE IF m.fs[m.ret].content.t # "dict" THEN FsReturn(m.fs, None)  \* json.load raised
    ELSE FsReturn(m.fs, ContentFromJson(m.fs[m.ret].content))

\* get_mirrored_content at the default detail level.
get_mirrored_content(self, f, source_path) ==
    LoadMirror(get_mirror_path(self, f, source_path))

\* update_mirrored_content once mirror_path is known.
StoreMirror(m, json) ==
    IF IsDir(m.fs, m.ret) THEN FsRaise(m.fs, "FileError")
    ELSE IF IsFile(m.fs, m.ret) /\ ~Writable(m.fs, m.ret) THEN FsRaise(m.fs, "FileError")
    ELSE FsReturn(WriteEntry(m.fs, m.ret, json), None)

update_mirrored_content(self, f, source_path, json) ==
    StoreMirror(get_mirror_path(self, f, source_path), json)

MirrorExists(m) == FsReturn(m.fs, Exists(m.fs, m.ret))

exists(self, f, source_path) == MirrorExists(get_mirror_path(self, f, source_path))

\* remove once mirror_path is known.
RemoveMirrorFile(m) ==
    IF ~Exists(m.fs, m.ret) THEN FsReturn(m.fs, None)
    ELSE IF IsDir(m.fs, m.ret) THEN FsRaise(m.fs, "IsADirectoryError")
    ELSE FsReturn(RemoveEntry(m.fs, m.ret), None)

remove(self, f, source_path) == RemoveMirrorFile(get_mirror_path(self, f, source_path))

compute_file_hash(self, f, file_path) ==
    IF IsFile(f, file_path) /\ Readable(f, file_path)
    THEN FsReturn(f, Sha256(f[file_path].content))
    ELSE FsRaise(f, "FileError")

\* The try block of is_mirror_up_to_date, c being the mirrored content read.
HashIsCurrent(self, c, source_path) ==
    IF "cls" \notin DOMAIN c.ret THEN FsReturn(c.fs, FALSE)
    ELSE IF c.ret.cls # "FileContent" THEN FsReturn(c.fs, FALSE)
    ELSE IF IsNone(c.ret.source_hash) THEN FsReturn(c.fs, FALSE)
    ELSE FsReturn(c.fs, c.ret.source_hash = compute_file_hash(self, c.fs, source_path).ret)

\* is_mirror_up_to_date after its call e of exists.
UpToDateGiven(self, e, source_path) ==
    IF ~e.ret \/ ~IsFile(e.fs, source_path) THEN FsReturn(e.fs, FALSE)
    ELSE HashIsCurrent(self, get_mirrored_content(self, e.fs, source_path), source_path)

\* An is_mirror_up_to_date that is satisfied by any mirror of a live file.
is_mirror_up_to_date_any_mirror(self, f, source_path) ==
    MirrorExists(get_mirror_path(self, f, source_path))

\* An is_mirror_up_to_date that is satisfied by any stored hash.
is_mirror_up_to_date_any_hash(self, f, source_path) ==
    FsReturn(f, /\ exists(self, f, source_path).ret
                /\ IsFile(f, source_path)
                /\ "cls" \in DOMAIN get_mirrored_content(self, f, source_path).ret
                /\ ~IsNone(get_mirrored_content(self, f, source_path).ret.source_hash))

\* JSONMirrors.is_mirror_up_to_date
is_mirror_up_to_date(self, f, source_path) ==
    UpToDateGiven(self, exists(self, f, source_path), source_path)

\* create_file_mirror once the source was hashed.
MirrorWithHash(self, f, source_path, elements, imports, detail_level, source_hash) ==
    IF source_hash.raised # "none" THEN source_hash
    ELSE update_mirrored_content(self, f, source_path,
             FileContentToJson(FileContent(source_path, SplitExt(BaseName(source_path)).ext,
                                           elements, imports, source_hash.ret),
                               detail_level))

create_file_mirror(self, f, source_path, elements, imports, detail_level) ==
    MirrorWithHash(self, f, source_path, elements, imports, detail_level,
                   compute_file_hash(self, f, source_path))

create_directory_mirror(self, f, source_path, files, subdirectories, detail_level) ==
    update_mirrored_content(self, f, source_path,
        DirectoryContentToJson(DirectoryContent(source_path, files, subdirectories),
                               detail_level))

\* The source path list_all_mirrors derives from one mirror file.
SourcePathOfMirror(self, mirror_file) ==
    self.root_path
        \o DirName(RelPath(mirror_file, self.mirror_path))
        \o <<SplitExt(BaseName(mirror_file)).root>>

\* The source paths of the mirror files `found`, in their order.
SourcePaths(self, found) == [i \in 1..Len(found) |-> SourcePathOfMirror(self, found[i])]

\* JSONMirrors.list_all_mirrors
list_all_mirrors(self, f) ==
    FsReturn(f, SourcePaths(self, SeqOf({q \in WalkFiles(f, self.mirror_path) :
                                            EndsWithExt(BaseName(q), "json")})))

-----------------------------------------------------------------------------
(* sync/change_tracker.py: ChangeTracker over a JSONMirrors instance.       *)

\* ChangeTracker._expand_paths
RECURSIVE expand_paths(_, _, _)
expand_paths(f, paths, i) ==
    IF i > Len(paths) THEN <<>>
    ELSE (IF IsFile(f, paths[i]) THEN <<paths[i]>>
          ELSE IF IsDir(f, paths[i]) THEN SeqOf(WalkFiles(f, paths[i]))
          ELSE <<>>) \o expand_paths(f, paths, i + 1)

\* ChangeTracker._is_within_paths
is_within_paths(f, file_path, paths) ==
    \E i \in 1..Len(paths) :
        IF IsFile(f, paths[i]) THEN file_path = paths[i]
        ELSE IF IsDir(f, paths[i]) THEN IsUnder(file_path, paths[i])
        ELSE FALSE

\* ChangeTracker._detect_deleted_files
RECURSIVE DeletedAmong(_, _, _, _)
DeletedAmong(f, mirrored_files, paths, i) ==
    IF i > Len(mirrored_files) THEN <<>>
    ELSE (IF is_within_paths(f, mirrored_files[i], paths) /\ ~Exists(f, mirrored_files[i])
          THEN <<mirrored_files[i]>> ELSE <<>>)
         \o DeletedAmong(f, mirrored_files, paths, i + 1)

detect_deleted_files(self, f, paths) ==
    DeletedAmong(f, list_all_mirrors(self, f).ret, paths, 1)

\* One file of the loop of detect_changes after its call e of exists.
ClassifyFile(self, acc, file_path, e) ==
    IF ~e.ret
    THEN [acc EXCEPT !.fs = e.fs, !.new_files = Append(@, file_path)]
    ELSE IF ~is_mirror_up_to_date(self, e.fs, file_path).ret
    THEN [acc EXCEPT !.fs = e.fs, !.modified_files = Append(@, file_path)]
    ELSE [acc EXCEPT !.fs = e.fs]

\* The loop of detect_changes over the expanded files: acc is
\* [fs, modified_files, new_files] after the files before the i-th.
RECURSIVE ClassifyFiles(_, _, _, _)
ClassifyFiles(self, acc, all_files, i) ==
    IF i > Len(all_files) THEN acc
    ELSE IF ~IsFile(acc.fs, all_files[i]) THEN ClassifyFiles(self, acc, all_files, i + 1)
    ELSE ClassifyFiles(self,
                       ClassifyFile(self, acc, all_files[i],
                                    exists(self, acc.fs, all_files[i])),
                       all_files, i + 1)

\* detect_changes after its loop: the deleted files, and the three lists.
ChangesGiven(self, c, paths) ==
    FsReturn(c.fs, [modified |-> c.modified_files, new |-> c.new_files,
                    deleted |-> detect_deleted_files(self, c.fs, paths)])

\* ChangeTracker.detect_changes
detect_changes(self, f, paths) ==
    ChangesGiven(self,
                 ClassifyFiles(self, [fs |-> f, modified_files |-> <<>>, new_files |-> <<>>],
                               expand_paths(f, paths, 1), 1),
                 paths)

-----------------------------------------------------------------------------
(* A source tree, its mirror store, and the callers of ChangeTracker.      *)

MaxContent == 2
MaxPaths == 2

Root == << <<"root">> >>
MirrorRoot == << <<"mirrors">> >>
SubDir == Root \o << <<"sub">> >>
SourceFiles == {Root \o << <<"a", "py">> >>, SubDir \o << <<"b", "py">> >>}
SourceDirs == {Root, SubDir}
MirrorLevels == {MINIMAL, DETAILED}

RECURSIVE PathLists(_)
PathLists(k) ==
    IF k = 0 THEN {<<>>}
    ELSE LET shorter == PathLists(k - 1)
         IN  shorter \cup {Append(l, q) : l \in shorter, q \in SourceFiles \cup SourceDirs}

\* One step on the files: the file system afterwards and the record of it.
FsCall(op, args, r) ==
    /\ fs' = r.fs
    /\ last' = [op |-> op, args |-> args, raised |-> r.raised,
                ret |-> IF r.raised = "none" THEN {r.ret} ELSE {}]
    /\ UNCHANGED <<relationship_map, held, json_mirrors>>

\* An editor writes a source file.
WriteFile ==
    \E path \in SourceFiles, n \in 1..MaxContent :
        FsCall("write_file", [path |-> path, content |-> n],
               FsReturn(WriteEntry(MakeDirs(fs, DirName(path)), path, Bytes(n)), None))

\* A source file is deleted.
DeleteFile ==
    \E path \in SourceFiles :
        /\ IsFile(fs, path)
        /\ FsCall("delete_file", [path |-> path], FsReturn(RemoveEntry(fs, path), None))

CreateFileMirror ==
    \E path \in SourceFiles, level \in MirrorLevels :
        FsCall("create_file_mirror", [source_path |-> path, detail_level |-> level],
               create_file_mirror(json_mirrors, fs, path, EmptyDict, EmptyList, level))

CreateDirectoryMirror ==
    \E path \in SourceDirs :
        /\ IsDir(fs, path)
        /\ FsCall("create_directory_mirror", [source_path |-> path],
                  create_directory_mirror(json_mirrors, fs, path, EmptyList, EmptyList,
                                          DETAILED))

RemoveMirror ==
    \E path \in SourceFiles \cup SourceDirs :
        FsCall("remove", [source_path |-> path], remove(json_mirrors, fs, path))

DetectChanges ==
    \E paths \in PathLists(MaxPaths) :
        FsCall("detect_changes", [paths |-> paths],
               detect_changes(json_mirrors, fs, paths))

\* JSONMirrors(root, mirrors) over an empty source root, as the tests build it.
NewMirrors == JSONMirrors(MakeDirs(<<>>, Root), Root, MirrorRoot)

InitSync ==
    /\ json_mirrors = NewMirrors.ret
    /\ fs = NewMirrors.fs
    /\ relationship_map = NewRelationshipMap
    /\ held = {}
    /\ last = NoCall

NextSync ==
    \/ WriteFile
    \/ DeleteFile
    \/ CreateFileMirror
    \/ CreateDirectoryMirror
    \/ RemoveMirror
    \/ DetectChanges

SpecSync == InitSync /\ [][NextSync]_vars

-----------------------------------------------------------------------------
(* Properties of ChangeTracker under SpecSync.                             *)

Range(seq) == {seq[i] : i \in DOMAIN seq}
Count(seq, x) == Cardinality({i \in DOMAIN seq : seq[i] = x})

\* The mirror records: the files of the mirror store with what they hold.
MirrorRecords(f) == [q \in WalkFiles(f, json_mirrors.mirror_path) |-> f[q]]

\* The source path has a mirror record.
HasMirror(f, path) == IsFile(f, get_mirror_path(json_mirrors, f, path).ret)

\* The source_hash of the mirror record of the path, None without one.
StoredHash(f, path) ==
    IF HasMirror(f, path)
    THEN DictGet(f[get_mirror_path(json_mirrors, f, path).ret].content, "source_hash", None)
    ELSE None

\* The path is one of the requested paths or lies below one of them.
Requested(path, paths) ==
    \E i \in 1..Len(paths) : path = paths[i] \/ IsUnder(path, paths[i])

\* The files on disk at or below the requested paths.
LiveFiles(f, paths) == {q \in DOMAIN f : f[q].kind = "file" /\ Requested(q, paths)}

\* C9 as stated: detect_changes(paths) returns new = the live files under the
\* paths without a mirror, modified = the live files under the paths with a
\* mirror that is not up to date, deleted = the mirrored paths inside the
\* requested path set that are no longer on disk; the three are pairwise
\* disjoint, and the call changes neither the mirror records nor the graph.
C9_DetectChangesContract ==
    [][ last'.op = "detect_changes" =>
          \E r \in last'.ret :
            LET paths == last'.args.paths
                live == LiveFiles(fs, paths)
            IN  /\ Range(r.new) = {q \in live : ~HasMirror(fs, q)}
                /\ Range(r.modified) =
                      {q \in live : HasMirror(fs, q)
                                      /\ ~is_mirror_up_to_date(json_mirrors, fs, q).ret}
                /\ Range(r.deleted) =
                      {q \in SourceFiles \cup SourceDirs :
                          HasMirror(fs, q) /\ Requested(q, paths) /\ ~Exists(fs, q)}
                /\ Range(r.new) \cap Range(r.modified) = {}
                /\ Range(r.new) \cap Range(r.deleted) = {}
                /\ Range(r.modified) \cap Range(r.deleted) = {}
                /\ MirrorRecords(fs') = MirrorRecords(fs)
                /\ relationship_map' = relationship_map
        ]_vars

-----------------------------------------------------------------------------
(* scanner/path_scanner.py and scanner/enhanced_path_scanner.py.  A step   *)
(* of a scanner or of ArchSync works on the graph and on the files: its    *)
(* operators take and return [map, fs, raised, ret].                       *)

Done(map, f, ret) == [map |-> map, fs |-> f, raised |-> "none", ret |-> ret]
Fail(map, f, exc) == [map |-> map, fs |-> f, raised |-> exc, ret |-> None]

\* An exception that the enclosing try block catches and logs.
Caught(w) == [w EXCEPT !.raised = "none"]

\* f"dir:{path}" and f"file:{path}"
DirId(path) == <<"dir", path>>
FileId(path) == <<"file", path>>

\* The pairs <<p, s>> of name parts of the model with p a proper, non-empty
\* prefix of s.
ProperPrefixes == {<<"a", "architectum">>, <<"sub", "subs">>}

\* s.startswith(p) and `p in s` on the parts between the dots of a name.
StrStartsWith(s, p) == p = "" \/ p = s \/ <<p, s>> \in ProperPrefixes
StrContains(s, p) == p = "" \/ p = s \/ <<p, s>> \in ProperPrefixes

\* name.startswith(prefix) on names.
NameStartsWith(name, prefix) ==
    /\ Len(name) >= Len(prefix)
    /\ \A i \in 1..(Len(prefix) - 1) : name[i] = prefix[i]
    /\ StrStartsWith(name[Len(prefix)], prefix[Len(prefix)])

\* node.path.startswith(path): a comparison of the two strings.
StartsWith(path, prefix) ==
    /\ Len(path) >= Len(prefix)
    /\ \A i \in 1..(Len(prefix) - 1) : path[i] = prefix[i]
    /\ NameStartsWith(path[Len(prefix)], prefix[Len(prefix)])

\* `pattern in item`: the pattern occurs in the name.  A pattern with a
\* leading dot matches behind a dot of the name.
PatternIn(pattern, item) ==
    IF Len(pattern) = 2 /\ pattern[1] = ""
    THEN \E i \in 2..Len(item) : StrStartsWith(item[i], pattern[2])
    ELSE \E i \in 1..Len(item) : StrContains(item[i], pattern[1])

\* os.listdir(directory): the names of its entries.
ListDir(f, directory) ==
    {BaseName(q) : q \in {x \in DOMAIN f : Len(x) = Len(directory) + 1
                                           /\ DirName(x) = directory}}

\* PathScanner.__init__ and EnhancedPathScanner.__init__ on an existing
\* directory, without a .gitignore file in it.  node_types are the keys that
\* _clean_existing_nodes hands to get_nodes_by_type: PathScanner hands the
\* classes DirectoryNode and FileNode, EnhancedPathScanner the NodeType members.
PathScanner(root_path, mirrors) ==
    [cls |-> "PathScanner", root_path |-> root_path, json_mirrors |-> mirrors,
     exclude_patterns |-> {<<"", "git">>, <<"", "venv">>, <<"__pycache__">>},
     node_types |-> <<"DirectoryNode", "FileNode">>]

EnhancedPathScanner(root_path, mirrors) ==
    [cls |-> "EnhancedPathScanner", root_path |-> root_path, json_mirrors |-> mirrors,
     exclude_patterns |-> {<<"", "git">>, <<"", "venv">>, <<"__pycache__">>,
                           <<"", "architectum">>},
     node_types |-> <<"directory", "file">>]

\* _list_directory_content and _should_exclude: the names that no exclude
\* pattern occurs in.
list_directory_content(self, f, directory) ==
    {item \in ListDir(f, directory) :
        \A pattern \in self.exclude_patterns : ~PatternIn(pattern, item)}

\* The ids that the loop over found.ret, the nodes of one type, collects.
PathsUnder(nodes, path) ==
    {n.id : n \in {x \in nodes : "path" \in DOMAIN x /\ StartsWith(x.path, path)}}

\* The first loop of _clean_existing_nodes from the i-th node type on; r is
\* the call of get_nodes_by_type for the type before it, ids the collected.
RECURSIVE NodesToRemove(_, _, _, _, _)
NodesToRemove(r, ids, path, node_types, i) ==
    IF r.raised # "none" THEN r
    ELSE IF i > Len(node_types) THEN Return(r.self, ids \cup PathsUnder(r.ret, path), {})
    ELSE NodesToRemove(get_nodes_by_type(r.self, node_types[i], STANDARD),
                       ids \cup PathsUnder(r.ret, path), path, node_types, i + 1)

\* The second loop: remove_node for every id, an exception being logged.
RECURSIVE RemoveNodes(_, _, _)
RemoveNodes(map, ids, i) ==
    IF i > Len(ids) THEN map
    ELSE RemoveNodes(remove_node(map, ids[i]).self, ids, i + 1)

\* _clean_existing_nodes after its first loop.
CleanFound(found) ==
    IF found.raised # "none" THEN found
    ELSE Return(RemoveNodes(found.self, SeqOf(found.ret), 1), None, {})

\* PathScanner._clean_existing_nodes, EnhancedPathScanner._clean_existing_nodes
clean_existing_nodes(self, map, path) ==
    CleanFound(NodesToRemove(Return(map, {}, {}), {}, path, self.node_types, 1))

\* The outcome of a RelationshipMap call as the outcome of the step.
OnMap(r, f) == [map |-> r.self, fs |-> f, raised |-> r.raised, ret |-> None]

\* add_relationship(ContainsRelationship(parent, node.id)) after add_node.
ContainedIn(w, a, node, parent_node_id) ==
    IF a.raised # "none" THEN OnMap(a, w.fs)
    ELSE OnMap(add_relationship(a.self,
                                ContainsRelationship(parent_node_id, node.id, None)),
               w.fs)

\* add_node(node) and the Contains relationship from its parent: an exception
\* of either leaves the block.
AddContained(w, node, parent_node_id) ==
    ContainedIn(w, add_node(w.map, node), node, parent_node_id)

\* The try block around create_directory_mirror in _scan_directory.
MirrorDirectory(self, w, directory, items, detail_level) ==
    [w EXCEPT !.fs =
        create_directory_mirror(
            self.json_mirrors, w.fs, directory,
            List(SeqOf({Append(directory, i) : i \in {x \in items :
                            IsFile(w.fs, Append(directory, x))}})),
            List(SeqOf({Append(directory, i) : i \in {x \in items :
                            IsDir(w.fs, Append(directory, x))}})),
            detail_level).fs]

\* The try block around create_file_mirror in _scan_directory.
MirrorFile(self, a, item_path, detail_level) ==
    IF a.raised # "none" THEN a
    ELSE [a EXCEPT !.fs = create_file_mirror(self.json_mirrors, a.fs, item_path,
                                             EmptyDict, EmptyList, detail_level).fs]

\* PathScanner._scan_directory, EnhancedPathScanner._scan_directory
RECURSIVE scan_directory(_, _, _, _, _, _, _)
RECURSIVE ScanItems(_, _, _, _, _, _, _, _, _)
RECURSIVE ScanSubdirectory(_, _, _, _, _, _)

scan_directory(self, w, directory, parent_node_id, current_depth, max_depth, detail_level) ==
    IF max_depth > 0 /\ current_depth >= max_depth THEN w
    ELSE IF ~IsDir(w.fs, directory) THEN w              \* os.listdir raised: logged
    ELSE ScanItems(self,
                   MirrorDirectory(self, w, directory,
                                   list_directory_content(self, w.fs, directory),
                                   detail_level),
                   directory, parent_node_id, current_depth, max_depth, detail_level,
                   SeqOf(list_directory_content(self, w.fs, directory)), 1)

\* The descent into a subdirectory once its node and relationship were added.
ScanSubdirectory(self, a, item_path, current_depth, max_depth, detail_level) ==
    IF a.raised # "none" THEN a
    ELSE scan_directory(self, a, item_path, DirId(item_path), current_depth + 1,
                        max_depth, detail_level)

\* The loop of _scan_directory over the items, from the i-th on.
ScanItems(self, w, directory, parent_node_id, current_depth, max_depth, detail_level, items, i) ==
    IF w.raised # "none" \/ i > Len(items) THEN w
    ELSE ScanItems(
            self,
            IF IsDir(w.fs, Append(directory, items[i]))
            THEN ScanSubdirectory(
                    self,
                    AddContained(w, DirectoryNode(DirId(Append(directory, items[i])),
                                                  Append(directory, items[i]), None),
                                 parent_node_id),
                    Append(directory, items[i]), current_depth, max_depth, detail_level)
            ELSE IF IsFile(w.fs, Append(directory, items[i]))
            THEN MirrorFile(
                    self,
                    AddContained(w, FileNode(FileId(Append(directory, items[i])),
                                             Append(directory, items[i]),
                                             SplitExt(items[i]).ext, None),
                                 parent_node_id),
                    Append(directory, items[i]), detail_level)
            ELSE w,
            directory, parent_node_id, current_depth, max_depth, detail_level, items, i + 1)

\* scan after add_node of the root directory node.
ScanFromRoot(self, a, f, max_depth, detail_level) ==
    IF a.raised # "none" THEN Fail(a.self, f, a.raised)
    ELSE scan_directory(self, Done(a.self, f, None), self.root_path,
                        DirId(self.root_path), 0, max_depth, detail_level)

\* scan after _clean_existing_nodes.
ScanCleaned(self, c, f, max_depth, detail_level) ==
    IF c.raised # "none" THEN Fail(c.self, f, c.raised)
    ELSE ScanFromRoot(self,
                      add_node(c.self, DirectoryNode(DirId(self.root_path),
                                                     self.root_path, None)),
                      f, max_depth, detail_level)

\* PathScanner.scan, EnhancedPathScanner.scan
scan(self, w, max_depth, detail_level) ==
    ScanCleaned(self, clean_existing_nodes(self, w.map, self.root_path), w.fs,
                max_depth, detail_level)

-----------------------------------------------------------------------------
(* sync/arch_sync.py: ArchSync over a RelationshipMap and a JSONMirrors.   *)

\* JSONMirrors.scan_directory: the files and the subdirectories of the
\* directory whose names do not start with a dot.
mirrors_scan_directory(f, directory_path) ==
    IF ~IsDir(f, directory_path) THEN FsRaise(f, "FileError")
    ELSE FsReturn(f,
            [files |-> List(SeqOf({Append(directory_path, i) :
                          i \in {x \in ListDir(f, directory_path) :
                                    x[1] # "" /\ IsFile(f, Append(directory_path, x))}})),
             subdirectories |-> List(SeqOf({Append(directory_path, i) :
                          i \in {x \in ListDir(f, directory_path) :
                                    x[1] # "" /\ IsDir(f, Append(directory_path, x))}}))])

\* ArchSync._prepare_paths, from the i-th path on.
RECURSIVE prepare_paths(_, _, _, _)
prepare_paths(f, paths, recursive, i) ==
    IF i > Len(paths) THEN <<>>
    ELSE (IF ~Exists(f, paths[i]) THEN <<>>
          ELSE IF IsFile(f, paths[i]) THEN <<paths[i]>>
          ELSE IF recursive THEN <<paths[i]>>
          ELSE SeqOf({Append(paths[i], item) :
                        item \in {x \in ListDir(f, paths[i]) :
                                     IsFile(f, Append(paths[i], x))}}))
         \o prepare_paths(f, paths, recursive, i + 1)

\* remove_relationship(rel.source_id, rel.target_id) for the relationships
\* rels, from the i-th on, after the call r; an exception ends the loop.
RECURSIVE RemoveRelationships(_, _, _)
RemoveRelationships(r, rels, i) ==
    IF r.raised # "none" \/ i > Len(rels) THEN r
    ELSE RemoveRelationships(remove_relationship(r.self, rels[i].source_id,
                                                 rels[i].target_id),
                             rels, i + 1)

\* _clean_existing_file_nodes after the two loops.
RemoveFileNode(r, file_node_id) ==
    IF r.raised # "none" THEN r ELSE remove_node(r.self, file_node_id)

\* ArchSync._clean_existing_file_nodes
clean_existing_file_nodes(map, file_path) ==
    IF "cls" \notin DOMAIN get_node(map, FileId(file_path), STANDARD).ret   \* None
    THEN Return(map, None, {})
    ELSE RemoveFileNode(
            RemoveRelationships(
                RemoveRelationships(
                    Return(map, None, {}),
                    SeqOf(get_incoming_relationships(map, FileId(file_path), STANDARD).ret),
                    1),
                SeqOf(get_outgoing_relationships(map, FileId(file_path), STANDARD).ret),
                1),
            FileId(file_path))

\* The outcome of a JSONMirrors call as the outcome of the step.
OnFiles(w, r) == [map |-> w.map, fs |-> r.fs, raised |-> r.raised, ret |-> None]

\* _add_file: create_directory_mirror of the parent after scan_directory s.
MirrorParent(self, w, s, parent_dir) ==
    IF s.raised # "none" THEN Fail(w.map, s.fs, s.raised)
    ELSE OnFiles(w, create_directory_mirror(self.json_mirrors, s.fs, parent_dir,
                                            s.ret.files, s.ret.subdirectories, DETAILED))

\* _add_file: the parent's mirror after the call e of exists(parent_dir).
ParentMirrored(self, w, e, parent_dir) ==
    IF e.ret THEN Done(w.map, e.fs, None)
    ELSE MirrorParent(self, w, mirrors_scan_directory(e.fs, parent_dir), parent_dir)

\* _add_file: the parent Directory node, added with its mirror if it is not
\* in the graph.
EnsureParent(self, w, parent_dir) ==
    IF "cls" \in DOMAIN get_node(w.map, DirId(parent_dir), STANDARD).ret THEN w
    ELSE ParentMirrored(
            self,
            OnMap(add_node(w.map, DirectoryNode(DirId(parent_dir), parent_dir, None)), w.fs),
            exists(self.json_mirrors, w.fs, parent_dir),
            parent_dir)

\* _add_file: the File node, its relationship and its mirror, p being the
\* outcome of the lines before.
AddFileNode(self, p, file_path) ==
    IF p.raised # "none" THEN p
    ELSE MirrorFile(self,
                    AddContained(p, FileNode(FileId(file_path), file_path,
                                             SplitExt(BaseName(file_path)).ext, None),
                                 DirId(DirName(file_path))),
                    file_path, DETAILED)

\* ArchSync._add_file: an exception is caught and logged.
add_file(self, w, file_path) ==
    Caught(AddFileNode(self, EnsureParent(self, w, DirName(file_path)), file_path))

\* _update_file after _clean_existing_file_nodes.
UpdateCleaned(self, w, c, file_path) ==
    IF c.raised # "none" THEN Done(c.self, w.fs, None)
    ELSE add_file(self, Done(c.self, w.fs, None), file_path)

\* ArchSync._update_file
update_file(self, w, file_path) ==
    UpdateCleaned(self, w, clean_existing_file_nodes(w.map, file_path), file_path)

\* _remove_file after _clean_existing_file_nodes.
RemoveCleaned(self, w, c, file_path) ==
    IF c.raised # "none" THEN Done(c.self, w.fs, None)
    ELSE Done(c.self, remove(self.json_mirrors, w.fs, file_path).fs, None)

\* ArchSync._remove_file
remove_file(self, w, file_path) ==
    RemoveCleaned(self, w, clean_existing_file_nodes(w.map, file_path), file_path)

\* One of the three loops of _incremental_update, from the i-th file on.
RECURSIVE ForEachFile(_, _, _, _, _)
ForEachFile(self, w, kind, files, i) ==
    IF i > Len(files) THEN w
    ELSE ForEachFile(self,
                     CASE kind = "modified" -> update_file(self, w, files[i])
                       [] kind = "new" -> add_file(self, w, files[i])
                       [] kind = "deleted" -> remove_file(self, w, files[i]),
                     kind, files, i + 1)

\* _incremental_update after detect_changes d.
IncrementalGiven(self, map, d) ==
    [ForEachFile(self,
        ForEachFile(self,
            ForEachFile(self, Done(map, d.fs, None), "modified", d.ret.modified, 1),
            "new", d.ret.new, 1),
        "deleted", d.ret.deleted, 1)
     EXCEPT !.ret = [updated |-> Len(d.ret.modified), added |-> Len(d.ret.new),
                     removed |-> Len(d.ret.deleted)]]

\* ArchSync._incremental_update
incremental_update(self, w, paths) ==
    IF paths = <<>> THEN Done(w.map, w.fs, [updated |-> 0, added |-> 0, removed |-> 0])
    ELSE IncrementalGiven(self, w.map, detect_changes(self.json_mirrors, w.fs, paths))

\* _force_rescan: the count after the scan s of a directory.
Rescanned(s, file_count) ==
    IF s.raised # "none" THEN s
    ELSE [s EXCEPT !.ret = file_count
                            + Cardinality(get_nodes_by_type(s.map, "file", STANDARD).ret)]

\* _force_rescan: the file removed and added again.
Readded(self, w, c, file_path, file_count) ==
    IF c.raised # "none" THEN Fail(c.self, w.fs, c.raised)
    ELSE [add_file(self, Done(c.self, w.fs, None), file_path)
          EXCEPT !.ret = file_count + 1]

\* The loop of _force_rescan from the i-th path on; w.ret is file_count.
RECURSIVE ForceRescanFrom(_, _, _, _)
ForceRescanFrom(self, w, paths, i) ==
    IF w.raised # "none" \/ i > Len(paths) THEN w
    ELSE ForceRescanFrom(
            self,
            IF IsDir(w.fs, paths[i])
            THEN Rescanned(scan(PathScanner(paths[i], self.json_mirrors), w, 0, STANDARD),
                           w.ret)
            ELSE IF IsFile(w.fs, paths[i])
            THEN Readded(self, w, clean_existing_file_nodes(w.map, paths[i]), paths[i],
                         w.ret)
            ELSE w,
            paths, i + 1)

\* _force_rescan after its loop.
ForceCounted(w) ==
    IF w.raised # "none" THEN w
    ELSE [w EXCEPT !.ret = [updated |-> w.ret, added |-> 0, removed |-> 0]]

\* ArchSync._force_rescan
force_rescan(self, w, paths) ==
    IF paths = <<>> THEN Done(w.map, w.fs, [updated |-> 0, added |-> 0, removed |-> 0])
    ELSE ForceCounted(ForceRescanFrom(self, Done(w.map, w.fs, 0), paths, 1))

\* ArchSync.__init__ with the two representations given.
ArchSync(mirrors) == [cls |-> "ArchSync", json_mirrors |-> mirrors]

\* ArchSync.sync
sync(self, w, paths, recursive, force) ==
    IF force THEN force_rescan(self, w, prepare_paths(w.fs, paths, recursive, 1))
    ELSE incremental_update(self, w, prepare_paths(w.fs, paths, recursive, 1))

-----------------------------------------------------------------------------
(* A source tree with its graph and its mirror store, scanned and synced.  *)

MaxDepth == 1
MaxSyncPaths == 1

\* The detail level the scans are run at: the one ArchSync writes mirrors at.
ScanLevels == {DETAILED}

\* JSONMirrors(root): the mirror root is <root>/.architectum/mirrors.
DefaultMirrorRoot == Root \o << <<"", "architectum">>, <<"mirrors">> >>
DefaultMirrors == JSONMirrors(MakeDirs(<<>>, Root), Root, DefaultMirrorRoot)

\* One step on the graph and the files, and the record of it.
ArchCall(op, args, r) ==
    /\ relationship_map' = r.map
    /\ fs' = r.fs
    /\ last' = [op |-> op, args |-> args, raised |-> r.raised,
                ret |-> IF r.raised = "none" THEN {r.ret} ELSE {}]
    /\ UNCHANGED <<held, json_mirrors>>

\* PathScanner(root, relationship_map, json_mirrors).scan(max_depth, level)
PathScan ==
    \E root_path \in SourceDirs, max_depth \in 0..MaxDepth, level \in ScanLevels :
        /\ IsDir(fs, root_path)
        /\ ArchCall("scan", [scanner |-> "PathScanner", root_path |-> root_path,
                             max_depth |-> max_depth, detail_level |-> level],
                    scan(PathScanner(root_path, json_mirrors),
                         Done(relationship_map, fs, None), max_depth, level))

\* EnhancedPathScanner(root, relationship_map, json_mirrors).scan(max_depth, level)
EnhancedScan ==
    \E root_path \in SourceDirs, max_depth \in 0..MaxDepth, level \in ScanLevels :
        /\ IsDir(fs, root_path)
        /\ ArchCall("scan", [scanner |-> "EnhancedPathScanner", root_path |-> root_path,
                             max_depth |-> max_depth, detail_level |-> level],
                    scan(EnhancedPathScanner(root_path, json_mirrors),
                         Done(relationship_map, fs, None), max_depth, level))

\* ArchSync(relationship_map, json_mirrors).sync(paths, recursive, force)
Sync ==
    \E paths \in PathLists(MaxSyncPaths), recursive \in BOOLEAN, force \in BOOLEAN :
        ArchCall("sync", [paths |-> paths, recursive |-> recursive, force |-> force],
                 sync(ArchSync(json_mirrors), Done(relationship_map, fs, None),
                      paths, recursive, force))

\* The permissions of a source file are taken away or given back.
ChmodSource ==
    \E path \in SourceFiles, mode \in {"rw", ""} :
        /\ IsFile(fs, path)
        /\ fs[path].mode # mode
        /\ FsCall("chmod", [path |-> path, mode |-> mode],
                  FsReturn([fs EXCEPT ![path].mode = mode], None))

\* The mirror record of a source file is made read-only or writable again.
ChmodMirror ==
    \E source_path \in SourceFiles, mode \in {"rw", "r"} :
      \E path \in {get_mirror_path(json_mirrors, fs, source_path).ret} :
        /\ IsFile(fs, path)
        /\ fs[path].mode # mode
        /\ FsCall("chmod", [path |-> path, mode |-> mode],
                  FsReturn([fs EXCEPT ![path].mode = mode], None))

\* The scanners over a tree, with the mirror store beside it or inside it.
InitScan ==
    /\ \E m \in {NewMirrors, DefaultMirrors} : json_mirrors = m.ret /\ fs = m.fs
    /\ relationship_map = NewRelationshipMap
    /\ held = {}
    /\ last = NoCall

NextScan ==
    \/ WriteFile
    \/ DeleteFile
    \/ PathScan
    \/ EnhancedScan

SpecScan == InitScan /\ [][NextScan]_vars

\* ArchSync and the scanners over a tree with the mirror store beside it.
NextArchSync ==
    \/ WriteFile
    \/ DeleteFile
    \/ Sync
    \/ EnhancedScan

SpecArchSync == InitSync /\ [][NextArchSync]_vars

\* ArchSync.sync(paths, recursive) without force.
SyncIncrementally ==
    \E paths \in PathLists(MaxSyncPaths), recursive \in BOOLEAN :
        ArchCall("sync", [paths |-> paths, recursive |-> recursive, force |-> FALSE],
                 sync(ArchSync(json_mirrors), Done(relationship_map, fs, None),
                      paths, recursive, FALSE))

\* Incremental syncs over a tree whose files and mirror records can be
\* unreadable or read-only for a while.
NextFailures ==
    \/ WriteFile
    \/ DeleteFile
    \/ ChmodSource
    \/ ChmodMirror
    \/ SyncIncrementally

SpecFailures == InitSync /\ [][NextFailures]_vars

-----------------------------------------------------------------------------
(* Properties of ArchSync under SpecArchSync.                              *)

\* The paths _prepare_paths hands on for the arguments of a sync.
Prepared(f, args) == prepare_paths(f, args.paths, args.recursive, 1)

\* The live files a sync with these arguments covers.
CoveredFiles(f, args) == Range(expand_paths(f, Prepared(f, args), 1))

\* The mirror record of the file holds the hash of its bytes.
Fresh(f, path) == is_mirror_up_to_date(json_mirrors, f, path).ret

\* The graph holds a File node for the path.
HasFileNode(map, path) == InGraph(map, FileId(path))

\* The graph holds the Contains relationship from the Directory node of the
\* parent directory of the path to the node with this id.
ContainedByParent(map, id) ==
    <<DirId(DirName(id[2])), id>> \in DOMAIN map.graph.edges
        /\ map.graph.edges[<<DirId(DirName(id[2])), id>>].type = "contains"

\* The number of files a forced sync of the prepared paths rescans: the files
\* below a directory, and one for a file path.
RECURSIVE ForcedFiles(_, _, _)
ForcedFiles(f, prepared, i) ==
    IF i > Len(prepared) THEN 0
    ELSE (IF IsDir(f, prepared[i]) THEN Cardinality(WalkFiles(f, prepared[i])) ELSE 1)
         + ForcedFiles(f, prepared, i + 1)

\* C11 as stated: sync(paths, force=True) returns (n, 0, 0), n being the
\* number of files below the given directories plus one for every given file
\* path; and an incremental sync over files that all have a node and a mirror,
\* none of them deleted, returns (k, 0, 0), k being the number of the covered
\* files that were edited since their mirror was written.
C11_ForcedThenIncrementalCounts ==
    [][ /\ (last'.op = "sync" /\ last'.args.force) =>
              /\ last'.raised = "none"
              /\ last'.ret = {[updated |-> ForcedFiles(fs, Prepared(fs, last'.args), 1),
                               added |-> 0, removed |-> 0]}
        /\ (/\ last'.op = "sync" /\ ~last'.args.force
            /\ \A q \in CoveredFiles(fs, last'.args) :
                    HasMirror(fs, q) /\ HasFileNode(relationship_map, q)
            /\ \A q \in SourceFiles : HasMirror(fs, q) => IsFile(fs, q)) =>
              last'.ret = {[updated |-> Cardinality({q \in CoveredFiles(fs, last'.args) :
                                                         ~Fresh(fs, q)}),
                            added |-> 0, removed |-> 0]}
      ]_vars

\* C12 as stated: when a file with a mirror and a File node was deleted from
\* disk, an incremental sync on its parent directory, recursive or not, counts
\* it as removed, and afterwards the file has neither mirror nor File node.
C12_DeletedFileIsRemoved ==
    [][ (last'.op = "sync" /\ ~last'.args.force) =>
          \A q \in SourceFiles :
            (/\ ~Exists(fs, q)
             /\ HasMirror(fs, q)
             /\ HasFileNode(relationship_map, q)
             /\ \E i \in 1..Len(last'.args.paths) : last'.args.paths[i] = DirName(q)) =>
                /\ \E r \in last'.ret : r.removed >= 1
                /\ ~HasMirror(fs', q)
                /\ ~HasFileNode(relationship_map', q)
      ]_vars

\* C13 as stated: after an incremental sync every live file it covers has a
\* mirror that is up to date, and an incremental sync that follows one with
\* the same arguments, with no change in between, returns (0, 0, 0) and
\* changes neither the graph nor the files.
C13_SecondSyncFindsNothing ==
    [][ (last'.op = "sync" /\ ~last'.args.force) =>
          /\ last'.raised = "none"
          /\ \A q \in CoveredFiles(fs', last'.args) : Fresh(fs', q)
          /\ (last.op = "sync" /\ last.args = last'.args) =>
                /\ last'.ret = {[updated |-> 0, added |-> 0, removed |-> 0]}
                /\ fs' = fs
                /\ relationship_map' = relationship_map
      ]_vars

\* The directories from the source root down to the parent of the path.
AncestorDirs(path) ==
    {SubSeq(path, 1, k) : k \in Len(json_mirrors.root_path)..(Len(path) - 1)}

\* C16 as stated: when an incremental sync adds a new file whose parent
\* directory has no Directory node, the graph afterwards holds a Directory
\* node for the parent and for each of its ancestors up to the source root,
\* each below the root contained by its own parent, and the File node
\* contained by its parent.
C16_AncestorChainOnDemand ==
    [][ (last'.op = "sync" /\ ~last'.args.force) =>
          \A q \in CoveredFiles(fs, last'.args) :
            (/\ ~HasMirror(fs, q)
             /\ ~HasFileNode(relationship_map, q)
             /\ ~InGraph(relationship_map, DirId(DirName(q)))) =>
                /\ \A d \in AncestorDirs(q) :
                      /\ InGraph(relationship_map', DirId(d))
                      /\ d # json_mirrors.root_path =>
                            ContainedByParent(relationship_map', DirId(d))
                /\ HasFileNode(relationship_map', q)
                /\ ContainedByParent(relationship_map', FileId(q))
      ]_vars

\* The Directory and File nodes of the graph.
TreeNodes(map) == {id \in DOMAIN map.graph.nodes : map.graph.nodes[id].type \in {"directory", "file"}}

\* The Contains relationships among them.
ContainsEdges(map) ==
    {e \in DOMAIN map.graph.edges :
        /\ map.graph.edges[e].type = "contains"
        /\ e[1] \in TreeNodes(map) /\ e[2] \in TreeNodes(map)}

\* The nodes reached from the nodes `from` along at most k edges of es.
RECURSIVE ReachedFrom(_, _, _)
ReachedFrom(from, es, k) ==
    IF k = 0 THEN from
    ELSE ReachedFrom(from \cup {e[2] : e \in {x \in es : x[1] \in from}}, es, k - 1)

\* C17 as stated: the Contains relationships among Directory and File nodes
\* are acyclic, and at most one Directory or File node, the topmost scanned
\* root, is not contained by the Directory node of its parent directory.
C17_ContainmentIsATree ==
    /\ \A e \in ContainsEdges(relationship_map) :
          e[1] \notin ReachedFrom({e[2]}, ContainsEdges(relationship_map),
                                  Cardinality(TreeNodes(relationship_map)))
    /\ Cardinality({id \in TreeNodes(relationship_map) :
                        ~ContainedByParent(relationship_map, id)}) <= 1

-----------------------------------------------------------------------------
(* Properties of ArchSync under SpecFailures.                              *)

\* The mirror record of the file, if it has one.
MirrorRecord(f, path) ==
    IF HasMirror(f, path) THEN {f[get_mirror_path(json_mirrors, f, path).ret]} ELSE {}

\* Reading the file fails, or writing its mirror record does.
Failing(f, path) ==
    \/ ~Readable(f, path)
    \/ HasMirror(f, path) /\ ~Writable(f, get_mirror_path(json_mirrors, f, path).ret)

\* The file has neither a File node nor a mirror record.
NotTracked(map, f, path) == ~HasFileNode(map, path) /\ ~HasMirror(f, path)

\* The file has a File node and a mirror record of other bytes than it holds.
TrackedStale(map, f, path) ==
    HasFileNode(map, path) /\ HasMirror(f, path) /\ ~Fresh(f, path)

\* The file has a File node and a mirror record of the bytes it holds.
TrackedFresh(map, f, path) ==
    HasFileNode(map, path) /\ HasMirror(f, path) /\ Fresh(f, path)

\* C14 as stated: an incremental sync in which reading a file or writing its
\* mirror record fails still returns its counts; every covered file that fails
\* keeps the File node and the mirror record it had, or goes on having
\* neither, and every other covered file that was untracked or stale is
\* tracked and fresh afterwards.
C14_FailingFileLeftAsItWas ==
    [][ (last'.op = "sync" /\ ~last'.args.force) =>
          /\ last'.raised = "none"
          /\ \A q \in CoveredFiles(fs, last'.args) :
                IF Failing(fs, q)
                THEN /\ HasFileNode(relationship_map', q) = HasFileNode(relationship_map, q)
                     /\ MirrorRecord(fs', q) = MirrorRecord(fs, q)
                ELSE (NotTracked(relationship_map, fs, q)
                        \/ TrackedStale(relationship_map, fs, q)) =>
                            TrackedFresh(relationship_map', fs', q)
      ]_vars

\* The step that ended the failure of the file: the file was made readable
\* again, or its mirror record writable again.
FailureGone(call, f, path) ==
    /\ call.op = "chmod"
    /\ call.args.mode = "rw"
    /\ call.args.path \in {path, get_mirror_path(json_mirrors, f, path).ret}

\* C15 as stated: when the failure of a file has just gone and the file is
\* not tracked and fresh, the incremental sync that covers it next leaves it
\* with a File node and a mirror record of the bytes it holds.
C15_SkippedFileIsRetried ==
    [][ (last'.op = "sync" /\ ~last'.args.force) =>
          \A q \in CoveredFiles(fs, last'.args) :
            (/\ FailureGone(last, fs, q)
             /\ ~Failing(fs, q)
             /\ ~TrackedFresh(relationship_map, fs, q)) =>
                TrackedFresh(relationship_map', fs', q)
      ]_vars

-----------------------------------------------------------------------------
(* Properties of the scanners under SpecScan.                              *)

\* The names the ignore policy leaves out when no .gitignore file is there.
IgnoredNames == {<<"", "git">>, <<"", "venv">>, <<"__pycache__">>, <<"", "architectum">>}

\* The entries below the root that a scan with this depth limit visits: those
\* with no ignored name on the way down from the root, at most max_depth
\* levels below it when max_depth is not 0.
VisitedEntries(f, root_path, max_depth) ==
    {q \in DOMAIN f :
        /\ IsUnder(q, root_path)
        /\ \A k \in (Len(root_path) + 1)..Len(q) : q[k] \notin IgnoredNames
        /\ max_depth = 0 \/ Len(q) - Len(root_path) <= max_depth}

\* The node of an entry: a Directory node or a File node.
EntryId(f, q) == IF IsDir(f, q) THEN DirId(q) ELSE FileId(q)

\* The nodes of the graph for the root and for what lies below it.
NodesBelow(map, root_path) ==
    {id \in DOMAIN map.graph.nodes : id[2] = root_path \/ IsUnder(id[2], root_path)}

\* C18 as stated: a scan completes without an error, and a scan that follows
\* a scan of the same root with the same arguments, the tree unchanged in
\* between, leaves the nodes and the relationships of the graph as they were.
C18_RescanIsIdempotent ==
    [][ (last'.op = "scan") =>
          /\ last'.raised = "none"
          /\ (last.op = "scan" /\ last.args = last'.args) =>
                /\ relationship_map'.graph.nodes = relationship_map.graph.nodes
                /\ relationship_map'.graph.edges = relationship_map.graph.edges
      ]_vars

\* C19 as stated: after scan(max_depth) the graph holds, for the root and
\* below it, the Directory node of the root and a node for every non-ignored
\* entry at most max_depth levels below the root, every one of them when
\* max_depth is 0, and no other.
C19_DepthLimit ==
    [][ (last'.op = "scan") =>
          /\ last'.raised = "none"
          /\ NodesBelow(relationship_map', last'.args.root_path)
                = {DirId(last'.args.root_path)}
                    \cup {EntryId(fs, q) : q \in VisitedEntries(fs, last'.args.root_path,
                                                               last'.args.max_depth)}
      ]_vars

\* C20 as stated: a scan into an empty graph leaves one node for the root and
\* one for every entry it visits, every node but the root contained by its
\* parent, and one relationship less than nodes; one node and no relationship
\* when the root directory holds nothing but the mirror store.
C20_TreeCounts ==
    [][ (last'.op = "scan" /\ node_count(relationship_map) = 0) =>
          /\ last'.raised = "none"
          /\ node_count(relationship_map')
                = 1 + Cardinality(VisitedEntries(fs, last'.args.root_path,
                                                 last'.args.max_depth))
          /\ \A id \in DOMAIN relationship_map'.graph.nodes :
                id # DirId(last'.args.root_path) =>
                    ContainedByParent(relationship_map', id)
          /\ relationship_count(relationship_map') = node_count(relationship_map') - 1
          /\ VisitedEntries(fs, last'.args.root_path, 0) = {} =>
                /\ node_count(relationship_map') = 1
                /\ relationship_count(relationship_map') = 0
      ]_vars

-----------------------------------------------------------------------------
(* The two representations side by side, under SpecArchSync.               *)

\* The Directory nodes of the graph for the root of a scan and below it.
ScannedDirs(map, root_path) ==
    {id[2] : id \in {x \in NodesBelow(map, root_path) : x[1] = "dir"}}

\* C21 as stated: after a scan and after a sync that completed, a file has a
\* File node exactly if it has a mirror, and after a scan every Directory node
\* for the scanned root and below it has a directory mirror.
C21_RepresentationsAgree ==
    (last.op \in {"scan", "sync"} /\ last.raised = "none") =>
        /\ \A q \in SourceFiles : HasFileNode(relationship_map, q) <=> HasMirror(fs, q)
        /\ last.op = "scan" =>
              \A d \in ScannedDirs(relationship_map, last.args.root_path) : HasMirror(fs, d)

-----------------------------------------------------------------------------
(* scanner/enhanced_path_scanner.py: GitIgnoreParser.  A line, a pattern   *)
(* and a path handed to it are strings, here the sequences of the pieces   *)
(* they are made of: names and extensions, ".", "/", "*", "!" and "#".     *)

\* fnmatch.fnmatch(name, pat): "*" stands for any run of pieces, every other
\* piece for itself.
RECURSIVE FnMatch(_, _)
FnMatch(name, pat) ==
    IF pat = <<>> THEN name = <<>>
    ELSE IF Head(pat) = "*"
    THEN FnMatch(name, Tail(pat)) \/ (name # <<>> /\ FnMatch(Tail(name), pat))
    ELSE name # <<>> /\ Head(name) = Head(pat) /\ FnMatch(Tail(name), Tail(pat))

\* file_path.split('/')
RECURSIVE SplitSlash(_)
SplitSlash(s) ==
    IF \A i \in DOMAIN s : s[i] # "/" THEN <<s>>
    ELSE LET k == CHOOSE i \in DOMAIN s : s[i] = "/" /\ \A j \in 1..(i - 1) : s[j] # "/"
         IN  <<SubSeq(s, 1, k - 1)>> \o SplitSlash(SubSeq(s, k + 1, Len(s)))

\* os.path.basename(file_path) on such a string.
StrBaseName(s) == SplitSlash(s)[Len(SplitSlash(s))]

\* The string of a name: its parts with dots between them.
RECURSIVE NameStr(_)
NameStr(name) ==
    IF Len(name) <= 1 THEN name
    ELSE <<Head(name), ".">> \o NameStr(Tail(name))

\* The string of a relative path: its names with slashes between them.
RECURSIVE PathStr(_)
PathStr(names) ==
    IF names = <<>> THEN <<>>
    ELSE IF Len(names) = 1 THEN NameStr(names[1])
    ELSE NameStr(names[1]) \o <<"/">> \o PathStr(Tail(names))

\* GitIgnoreParser._normalize_pattern
normalize_pattern(pattern) ==
    IF pattern # <<>> /\ Head(pattern) = "/" THEN Tail(pattern) ELSE pattern

\* The loop of _parse_gitignore over the lines, from the i-th on.
RECURSIVE ParseLines(_, _, _)
ParseLines(self, lines, i) ==
    IF i > Len(lines) THEN self
    ELSE ParseLines(
            IF lines[i] = <<>> \/ Head(lines[i]) = "#" THEN self
            ELSE IF Head(lines[i]) = "!"
            THEN IF Tail(lines[i]) # <<>>
                 THEN [self EXCEPT !.negation_patterns =
                                        @ \cup {normalize_pattern(Tail(lines[i]))}]
                 ELSE self
            ELSE IF lines[i][Len(lines[i])] = "/"
            THEN [self EXCEPT !.directory_patterns =
                                @ \cup {normalize_pattern(SubSeq(lines[i], 1,
                                                                 Len(lines[i]) - 1))}]
            ELSE [self EXCEPT !.patterns = @ \cup {normalize_pattern(lines[i])}],
            lines, i + 1)

\* GitIgnoreParser._parse_gitignore: a file that cannot be read leaves the
\* parser without patterns.
parse_gitignore(self, f) ==
    IF ~Readable(f, self.gitignore_path) THEN self
    ELSE ParseLines(self, f[self.gitignore_path].content, 1)

\* GitIgnoreParser.__init__
GitIgnoreParser(f, gitignore_path) ==
    IF Exists(f, gitignore_path)
    THEN parse_gitignore([cls |-> "GitIgnoreParser", gitignore_path |-> gitignore_path,
                          patterns |-> {}, directory_patterns |-> {},
                          negation_patterns |-> {}], f)
    ELSE [cls |-> "GitIgnoreParser", gitignore_path |-> gitignore_path,
          patterns |-> {}, directory_patterns |-> {}, negation_patterns |-> {}]

\* GitIgnoreParser._matches_pattern
matches_pattern(file_path, pattern) ==
    IF \E i \in DOMAIN pattern : pattern[i] = "/" THEN FnMatch(file_path, pattern)
    ELSE \/ FnMatch(StrBaseName(file_path), pattern)
         \/ \E i \in DOMAIN SplitSlash(file_path) : FnMatch(SplitSlash(file_path)[i], pattern)

\* GitIgnoreParser._is_negated
is_negated(self, file_path) ==
    \E pattern \in self.negation_patterns : matches_pattern(file_path, pattern)

\* The name of the directory that marks a git root.
GitDir == <<"", "git">>

\* GitIgnoreParser._find_git_root: the directories from the path upwards that
\* hold a .git entry; the nearest is the root found.
GitRoots(f, path) ==
    {SubSeq(path, 1, k) : k \in {j \in 1..Len(path) : Exists(f, Append(SubSeq(path, 1, j), GitDir))}}

find_git_root(f, path) ==
    IF GitRoots(f, path) = {} THEN {}
    ELSE {CHOOSE r \in GitRoots(f, path) : \A o \in GitRoots(f, path) : Len(o) <= Len(r)}

\* should_ignore: the string matched for an absolute path, the path from the
\* git root if there is one and the basename if not; a relative path is
\* matched as it is.
MatchedPath(f, file_path) ==
    IF ~file_path.abs THEN PathStr(file_path.names)
    ELSE IF find_git_root(f, file_path.names) = {}
    THEN NameStr(BaseName(file_path.names))
    ELSE PathStr(RelPath(file_path.names,
                         CHOOSE r \in find_git_root(f, file_path.names) : TRUE))

\* should_ignore after the conversion of the path.
IgnoreMatched(self, file_path, is_directory) ==
    \/ /\ is_directory
       /\ \E pattern \in self.directory_patterns : matches_pattern(file_path, pattern)
       /\ ~is_negated(self, file_path)
    \/ /\ \E pattern \in self.patterns : matches_pattern(file_path, pattern)
       /\ ~is_negated(self, file_path)

\* GitIgnoreParser.should_ignore
should_ignore(self, f, file_path, is_directory) ==
    IgnoreMatched(self, MatchedPath(f, file_path), is_directory)

\* EnhancedPathScanner.__init__ with additional_ignores and respect_gitignore:
\* the parser of <root>/.gitignore if that file is there.
EnhancedPathScannerIgnoring(f, root_path, mirrors, respect_gitignore, additional_ignores) ==
    [cls |-> "EnhancedPathScanner", root_path |-> root_path, json_mirrors |-> mirrors,
     exclude_patterns |-> EnhancedPathScanner(root_path, mirrors).exclude_patterns
                            \cup additional_ignores,
     node_types |-> <<"directory", "file">>,
     gitignore_parser |->
        IF respect_gitignore /\ Exists(f, Append(root_path, <<"", "gitignore">>))
        THEN {GitIgnoreParser(f, Append(root_path, <<"", "gitignore">>))}
        ELSE {}]

\* _should_exclude with the negations of the .gitignore file consulted first.
should_exclude_negation_first(self, f, item_path, is_directory) ==
    /\ ~\E parser \in self.gitignore_parser :
            is_negated(parser, MatchedPath(f, [abs |-> TRUE, names |-> item_path]))
    /\ \/ \E pattern \in self.exclude_patterns : PatternIn(pattern, BaseName(item_path))
       \/ \E parser \in self.gitignore_parser :
                should_ignore(parser, f, [abs |-> TRUE, names |-> item_path], is_directory)

\* EnhancedPathScanner._should_exclude
should_exclude(self, f, item_path, is_directory) ==
    \/ \E pattern \in self.exclude_patterns : PatternIn(pattern, BaseName(item_path))
    \/ \E parser \in self.gitignore_parser :
            should_ignore(parser, f, [abs |-> TRUE, names |-> item_path], is_directory)

-----------------------------------------------------------------------------
(* The ignore policy over a .gitignore file that is written line by line.  *)

MaxIgnoreLines == 3

\* The lines of a .gitignore file: *.log, build/, !important.log, !build/,
\* a comment, and /build.
IgnoreLines ==
    {<<"*", ".", "log">>, <<"build", "/">>, <<"!", "important", ".", "log">>,
     <<"!", "build", "/">>, <<"#", "build">>, <<"/", "build">>}

GitignorePath == Append(Root, <<"", "gitignore">>)

\* The entries asked about: x.log, important.log and build in the root,
\* important.log and build one directory down.
IgnoreItems ==
    {Root \o << <<"x", "log">> >>, Root \o << <<"important", "log">> >>,
     Root \o << <<"build">> >>, SubDir \o << <<"important", "log">> >>,
     SubDir \o << <<"build">> >>}

\* The paths handed to should_ignore: the entries, absolute and relative to
\* the root.
IgnorePaths ==
    {[abs |-> TRUE, names |-> q] : q \in IgnoreItems}
        \cup {[abs |-> FALSE, names |-> RelPath(q, Root)] : q \in IgnoreItems}

\* The additional_ignores handed to the scanner: none, "log", "important".
ExtraIgnores == {{}, {<<"log">>}, {<<"important">>}}

\* One call that reads the files and changes nothing.
IgnoreCall(op, args, ret) ==
    /\ last' = [op |-> op, args |-> args, raised |-> "none", ret |-> {Bool(ret)}]
    /\ UNCHANGED <<relationship_map, held, json_mirrors, fs>>

\* The lines of the .gitignore file of the root, none if it is not there.
GitignoreLines(f) == IF IsFile(f, GitignorePath) THEN f[GitignorePath].content ELSE <<>>

\* A line is written at the end of the .gitignore file of the root.
WriteGitignore ==
    \E line \in IgnoreLines :
        /\ Len(GitignoreLines(fs)) < MaxIgnoreLines
        /\ FsCall("write_gitignore", [line |-> line],
                  FsReturn(WriteEntry(fs, GitignorePath, Append(GitignoreLines(fs), line)),
                           None))

\* GitIgnoreParser(<root>/.gitignore).should_ignore(file_path, is_directory)
ShouldIgnore ==
    \E file_path \in IgnorePaths, is_directory \in BOOLEAN :
        IgnoreCall("should_ignore",
                   [file_path |-> file_path, is_directory |-> is_directory],
                   should_ignore(GitIgnoreParser(fs, GitignorePath), fs, file_path,
                                 is_directory))

\* EnhancedPathScanner(root, respect_gitignore=..., additional_ignores=...)
\*     ._should_exclude(item_path, is_directory)
ShouldExclude ==
    \E item_path \in IgnoreItems, is_directory \in BOOLEAN,
       respect_gitignore \in BOOLEAN, additional_ignores \in ExtraIgnores :
        IgnoreCall("should_exclude",
                   [item_path |-> item_path, is_directory |-> is_directory,
                    respect_gitignore |-> respect_gitignore,
                    additional_ignores |-> additional_ignores],
                   should_exclude(EnhancedPathScannerIgnoring(fs, Root, json_mirrors,
                                                              respect_gitignore,
                                                              additional_ignores),
                                  fs, item_path, is_directory))

\* A source root inside a git repository or outside of one.
InitIgnore ==
    /\ json_mirrors = NewMirrors.ret
    /\ \E git \in BOOLEAN :
            fs = IF git THEN MakeDirs(NewMirrors.fs, Append(Root, GitDir)) ELSE NewMirrors.fs
    /\ relationship_map = NewRelationshipMap
    /\ held = {}
    /\ last = NoCall

NextIgnore ==
    \/ WriteGitignore
    \/ ShouldIgnore
    \/ ShouldExclude

SpecIgnore == InitIgnore /\ [][NextIgnore]_vars

-----------------------------------------------------------------------------
(* Properties of the ignore policy under SpecIgnore.                       *)

\* The lines of the .gitignore file of the root.
Lines(f) == Range(GitignoreLines(f))

\* The kinds of line: comments and empty lines aside, a line with a leading
\* "!" negates, a line with a trailing "/" speaks of directories only.
IsPatternLine(l) == l # <<>> /\ Head(l) # "#"
Negates(l) == IsPatternLine(l) /\ Head(l) = "!" /\ Tail(l) # <<>>
AfterBang(l) == IF l # <<>> /\ Head(l) = "!" THEN Tail(l) ELSE l
DirectoryOnly(l) == AfterBang(l) # <<>> /\ AfterBang(l)[Len(AfterBang(l))] = "/"

\* The glob of a line: the line without its "!", its trailing "/" and its
\* leading "/".
GlobOf(l) ==
    normalize_pattern(IF DirectoryOnly(l)
                      THEN SubSeq(AfterBang(l), 1, Len(AfterBang(l)) - 1)
                      ELSE AfterBang(l))

\* The path matches the line: its glob matches, and the path is a directory
\* if the line speaks of directories only.
MatchesLine(p, is_directory, l) ==
    /\ DirectoryOnly(l) => is_directory
    /\ matches_pattern(p, GlobOf(l))

\* C22 as stated: should_ignore(p, is_directory) is true exactly when p
\* matches a line that does not negate, a directory-only line counting for
\* directories only, and p matches no negating line, whatever the order of
\* the lines.
C22_GitignorePolicy ==
    [][ (last'.op = "should_ignore") =>
          last'.ret =
            {Bool(/\ \E l \in Lines(fs) :
                        /\ IsPatternLine(l) /\ ~Negates(l)
                        /\ MatchesLine(MatchedPath(fs, last'.args.file_path),
                                       last'.args.is_directory, l)
                  /\ ~\E l \in Lines(fs) :
                        /\ Negates(l)
                        /\ MatchesLine(MatchedPath(fs, last'.args.file_path),
                                       last'.args.is_directory, l))}
      ]_vars

\* The exclude patterns of a scanner built with these additional_ignores: the
\* four legacy ones and the additional ones.
LegacyPatterns(additional_ignores) ==
    {<<"", "git">>, <<"", "venv">>, <<"__pycache__">>, <<"", "architectum">>}
        \cup additional_ignores

\* A legacy or additional pattern occurs in the basename of the entry.
LegacyHit(args) ==
    \E pattern \in LegacyPatterns(args.additional_ignores) :
        PatternIn(pattern, BaseName(args.item_path))

\* The .gitignore file of the root holds a negation that matches the entry.
NegationHit(f, args) ==
    is_negated(GitIgnoreParser(f, GitignorePath),
               MatchedPath(f, [abs |-> TRUE, names |-> args.item_path]))

\* C23: an entry whose basename holds a legacy or additional pattern is
\* excluded, whatever the .gitignore file says; any other entry is excluded
\* exactly when the .gitignore file is respected and should_ignore holds for
\* it, so that a negation takes back gitignore matches only.
C23_LegacyBeatsNegation ==
    [][ (last'.op = "should_exclude") =>
          last'.ret =
            {Bool(\/ LegacyHit(last'.args)
                  \/ /\ last'.args.respect_gitignore
                     /\ IsFile(fs, GitignorePath)
                     /\ should_ignore(GitIgnoreParser(fs, GitignorePath), fs,
                                      [abs |-> TRUE, names |-> last'.args.item_path],
                                      last'.args.is_directory))}
      ]_vars

\* An entry with an additional pattern in its basename and a negation that
\* matches it was asked about, the .gitignore file respected, and is excluded.
C23_Witness ==
    /\ last.op = "should_exclude"
    /\ last.args.respect_gitignore
    /\ LegacyHit(last.args)
    /\ NegationHit(fs, last.args)
    /\ last.ret = {Bool(TRUE)}

-----------------------------------------------------------------------------
(* Properties of JSONMirrors under SpecSync.                               *)

\* C24 as stated: list_all_mirrors returns the source paths that have a
\* mirror, files and directories, the root directory among them, each of them
\* once, and the mirror of every path it returns exists.
C24_ListInvertsMapping ==
    /\ Range(list_all_mirrors(json_mirrors, fs).ret)
            = {p \in SourceFiles \cup SourceDirs : HasMirror(fs, p)}
    /\ \A p \in Range(list_all_mirrors(json_mirrors, fs).ret) :
            /\ Count(list_all_mirrors(json_mirrors, fs).ret, p) = 1
            /\ exists(json_mirrors, fs, p).ret

-----------------------------------------------------------------------------
(* The mirror store asked whether a mirror is up to date, over files and   *)
(* mirror records that can be unreadable for a while.                      *)

\* The outcome of a call that returns a bool, as a value.
BoolResult(r) == [r EXCEPT !.ret = Bool(r.ret)]

\* JSONMirrors.is_mirror_up_to_date(source_path)
IsMirrorUpToDate ==
    \E path \in SourceFiles \cup SourceDirs :
        FsCall("is_mirror_up_to_date", [source_path |-> path],
               BoolResult(is_mirror_up_to_date(json_mirrors, fs, path)))

\* The permissions of the mirror record of a source file are taken away or
\* given back.
HideMirror ==
    \E source_path \in SourceFiles, mode \in {"rw", ""} :
      \E path \in {get_mirror_path(json_mirrors, fs, source_path).ret} :
        /\ IsFile(fs, path)
        /\ fs[path].mode # mode
        /\ FsCall("chmod", [path |-> path, mode |-> mode],
                  FsReturn([fs EXCEPT ![path].mode = mode], None))

NextMirrors ==
    \/ WriteFile
    \/ DeleteFile
    \/ CreateFileMirror
    \/ CreateDirectoryMirror
    \/ RemoveMirror
    \/ ChmodSource
    \/ HideMirror
    \/ IsMirrorUpToDate

SpecMirrors == InitSync /\ [][NextMirrors]_vars

\* The mirror record of the path can be read and holds the digest of the
\* bytes the file holds now, which can be read as well.
HoldsCurrentHash(f, path) ==
    /\ HasMirror(f, path)
    /\ Readable(f, get_mirror_path(json_mirrors, f, path).ret)
    /\ IsFile(f, path)
    /\ Readable(f, path)
    /\ ~IsNone(StoredHash(f, path))
    /\ StoredHash(f, path) = Sha256(f[path].content)

-----------------------------------------------------------------------------
(* The graph with relationships added over relationships.                  *)

\* add_relationship for a pair that carries another relationship already.
ReplaceRelationship ==
    \E s \in NodeIds, t \in NodeIds : \E r \in RelInputs(s, t) :
        /\ <<s, t>> \in DOMAIN relationship_map.graph.edges
        /\ relationship_map.graph.edges[<<s, t>>] # r
        /\ CallOne("add_relationship",
                   [relationship |-> r, replaces |-> relationship_map.graph.edges[<<s, t>>]],
                   add_relationship(relationship_map, r))

NextReplace ==
    \/ Next
    \/ ReplaceRelationship

SpecReplace == Init /\ [][NextReplace]_vars

\* The relationships the queries return: those leaving or entering a node.
Returned(map) ==
    UNION {get_outgoing_relationships(map, id, DETAILED).ret
                \cup get_incoming_relationships(map, id, DETAILED).ret :
           id \in DOMAIN map.graph.nodes}

\* C26: an add_relationship that succeeds leaves its relationship as the only
\* one of its ordered pair, whether or not the pair carried one before, of
\* the same kind or of another: get_relationship returns it, no query returns
\* another relationship of the pair, and relationship_count is the number of
\* ordered pairs that carry a relationship.
C26_OneRelationshipPerPair ==
    [][ (last'.op = "add_relationship" /\ last'.raised = "none") =>
          /\ get_relationship(relationship_map', last'.args.relationship.source_id,
                              last'.args.relationship.target_id, DETAILED).ret
                = last'.args.relationship
          /\ \A x \in Returned(relationship_map') :
                (/\ x.source_id = last'.args.relationship.source_id
                 /\ x.target_id = last'.args.relationship.target_id) =>
                    x = last'.args.relationship
          /\ relationship_count(relationship_map')
                = Cardinality(DOMAIN relationship_map.graph.edges
                                \cup {<<last'.args.relationship.source_id,
                                        last'.args.relationship.target_id>>})
          /\ relationship_count(relationship_map')
                = Cardinality({<<x.source_id, x.target_id>> :
                                    x \in Returned(relationship_map')})
      ]_vars

\* A relationship was added to a pair that carried one of another kind, and
\* the graph holds the new one and one relationship in all.
C26_Witness ==
    /\ last.op = "add_relationship"
    /\ last.raised = "none"
    /\ "replaces" \in DOMAIN last.args
    /\ last.args.replaces.type # last.args.relationship.type
    /\ relationship_count(relationship_map) = 1
    /\ relationship_map.graph.edges[<<last.args.relationship.source_id,
                                      last.args.relationship.target_id>>]
            = last.args.relationship

-----------------------------------------------------------------------------
(* The mirror store inside the tree it mirrors: JSONMirrors(root).          *)

\* The syncs stop when the mirror store holds more files than this.
MaxMirrorFiles == 3

\* ChangeTracker(json_mirrors).detect_changes([root])
DetectChangesOfRoot ==
    /\ Cardinality(WalkFiles(fs, json_mirrors.mirror_path)) <= MaxMirrorFiles
    /\ FsCall("detect_changes", [paths |-> <<Root>>],
              detect_changes(json_mirrors, fs, <<Root>>))

\* ArchSync(relationship_map, json_mirrors).sync([root], recursive=True)
SyncRoot ==
    /\ Cardinality(WalkFiles(fs, json_mirrors.mirror_path)) <= MaxMirrorFiles
    /\ ArchCall("sync", [paths |-> <<Root>>, recursive |-> TRUE, force |-> FALSE],
                sync(ArchSync(json_mirrors), Done(relationship_map, fs, None),
                     <<Root>>, TRUE, FALSE))

InitDefault ==
    /\ json_mirrors = DefaultMirrors.ret
    /\ fs = DefaultMirrors.fs
    /\ relationship_map = NewRelationshipMap
    /\ held = {}
    /\ last = NoCall

NextDefault ==
    \/ WriteFile
    \/ DeleteFile
    \/ DetectChangesOfRoot
    \/ SyncRoot

SpecDefault == InitDefault /\ [][NextDefault]_vars

\* The files of the mirror store.
MirrorStoreFiles(f) == WalkFiles(f, json_mirrors.mirror_path)

\* C27: with the mirror store under the root, detect_changes over the root
\* lists no file of the mirror store as new or modified, and a recursive
\* incremental sync of the root leaves no file node for a file of the mirror
\* store and no mirror record of one.
C27_MirrorStoreIsNotSource ==
    /\ (last.op = "detect_changes" /\ last.raised = "none") =>
          \A r \in last.ret : \A q \in Range(r.new) \cup Range(r.modified) :
              ~IsUnder(q, json_mirrors.mirror_path)
    /\ (last.op = "sync" /\ last.raised = "none") =>
          \A q \in MirrorStoreFiles(fs) :
              /\ ~HasFileNode(relationship_map, q)
              /\ ~HasMirror(fs, q)

-----------------------------------------------------------------------------
(* Whole-tree scans at each of the three detail levels.                    *)

\* scan(detail_level=level) of either scanner, without a depth limit.
ScanAtLevel ==
    \E root_path \in SourceDirs, level \in DetailLevel,
       scanner \in {"PathScanner", "EnhancedPathScanner"} :
        /\ IsDir(fs, root_path)
        /\ ArchCall("scan", [scanner |-> scanner, root_path |-> root_path,
                             max_depth |-> 0, detail_level |-> level],
                    scan(IF scanner = "PathScanner"
                         THEN PathScanner(root_path, json_mirrors)
                         ELSE EnhancedPathScanner(root_path, json_mirrors),
                         Done(relationship_map, fs, None), 0, level))

NextLevels ==
    \/ WriteFile
    \/ DeleteFile
    \/ ScanAtLevel

SpecLevels == InitSync /\ [][NextLevels]_vars

\* The files a scan of root_path without a depth limit visits.
ScannedFiles(f, root_path) == {q \in SourceFiles : IsFile(f, q) /\ IsUnder(q, root_path)}

\* C28: after a scan at any detail level every file it visited has a File
\* node and a mirror record that holds the hash of its bytes:
\* is_mirror_up_to_date is true for it, and detect_changes over the scanned
\* root does not report it as modified.
C28_ScanLeavesFilesFresh ==
    (last.op = "scan" /\ last.raised = "none") =>
        \A q \in ScannedFiles(fs, last.args.root_path) :
            /\ TrackedFresh(relationship_map, fs, q)
            /\ \A i \in DOMAIN detect_changes(json_mirrors, fs,
                                              <<last.args.root_path>>).ret.modified :
                  detect_changes(json_mirrors, fs,
                                 <<last.args.root_path>>).ret.modified[i] # q

-----------------------------------------------------------------------------
(* Two sibling directories, the name of one a prefix of the other's.       *)

\* <root>/subs beside <root>/sub, and the file in it.
SiblingDir == Root \o << <<"subs">> >>
SiblingFile == SiblingDir \o << <<"c", "py">> >>
ScannedRoots == {Root, SubDir, SiblingDir}

WriteSiblingFile ==
    \E n \in 1..MaxContent :
        FsCall("write_file", [path |-> SiblingFile, content |-> n],
               FsReturn(WriteEntry(MakeDirs(fs, SiblingDir), SiblingFile, Bytes(n)), None))

\* EnhancedPathScanner(directory, relationship_map, json_mirrors).scan()
ScanDirectory ==
    \E root_path \in ScannedRoots :
        /\ IsDir(fs, root_path)
        /\ ArchCall("scan", [scanner |-> "EnhancedPathScanner", root_path |-> root_path,
                             max_depth |-> 0, detail_level |-> STANDARD],
                    scan(EnhancedPathScanner(root_path, json_mirrors),
                         Done(relationship_map, fs, None), 0, STANDARD))

\* ArchSync(relationship_map, json_mirrors).sync([directory], recursive=True, force=True)
ForceSyncDirectory ==
    \E root_path \in ScannedRoots :
        /\ IsDir(fs, root_path)
        /\ ArchCall("sync", [paths |-> <<root_path>>, recursive |-> TRUE, force |-> TRUE,
                             root_path |-> root_path],
                    sync(ArchSync(json_mirrors), Done(relationship_map, fs, None),
                         <<root_path>>, TRUE, TRUE))

NextSiblings ==
    \/ WriteFile
    \/ WriteSiblingFile
    \/ DeleteFile
    \/ ScanDirectory
    \/ ForceSyncDirectory

SpecSiblings == InitSync /\ [][NextSiblings]_vars

\* The nodes of the graph whose path is neither the directory nor inside it.
NodesOutside(map, directory) ==
    {id \in DOMAIN map.graph.nodes :
        "path" \in DOMAIN map.graph.nodes[id]
            => (/\ map.graph.nodes[id].path # directory
                /\ ~IsUnder(map.graph.nodes[id].path, directory))}

\* C29: a rescan or forced sync of a directory that completes leaves every
\* node whose path is neither the directory nor inside it as it was, a
\* sibling directory whose name begins with the directory's name included,
\* and leaves the relationships between such nodes as they were.
C29_RescanStaysInside ==
    [][ (last'.op \in {"scan", "sync"} /\ last'.raised = "none") =>
          /\ \A id \in NodesOutside(relationship_map, last'.args.root_path) :
                /\ id \in DOMAIN relationship_map'.graph.nodes
                /\ relationship_map'.graph.nodes[id] = relationship_map.graph.nodes[id]
          /\ \A e \in DOMAIN relationship_map.graph.edges :
                (/\ e[1] \in NodesOutside(relationship_map, last'.args.root_path)
                 /\ e[2] \in NodesOutside(relationship_map, last'.args.root_path)) =>
                    /\ e \in DOMAIN relationship_map'.graph.edges
                    /\ relationship_map'.graph.edges[e] = relationship_map.graph.edges[e]
      ]_vars

-----------------------------------------------------------------------------
(* Requests that name a path twice, or a directory and something in it.    *)

\* ArchSync.sync(paths, recursive) with two requested paths.
SyncTwoPaths ==
    \E paths \in PathLists(MaxPaths), recursive \in BOOLEAN :
        /\ Len(paths) = MaxPaths
        /\ ArchCall("sync", [paths |-> paths, recursive |-> recursive, force |-> FALSE],
                    sync(ArchSync(json_mirrors), Done(relationship_map, fs, None),
                         paths, recursive, FALSE))

NextOverlap ==
    \/ WriteFile
    \/ DeleteFile
    \/ DetectChanges
    \/ SyncTwoPaths

SpecOverlap == InitSync /\ [][NextOverlap]_vars

\* No element occurs twice in the sequence.
NoRepeats(seq) == \A i \in DOMAIN seq, j \in DOMAIN seq : seq[i] = seq[j] => i = j

\* C30: detect_changes lists each path at most once in each of its lists,
\* and the counts an incremental sync returns are the numbers of distinct
\* modified, new and deleted files among the paths it was given, also when
\* these repeat or overlap.
C30_EachFileOnce ==
    [][ /\ (last'.op = "detect_changes" /\ last'.raised = "none") =>
              \A r \in last'.ret :
                  NoRepeats(r.modified) /\ NoRepeats(r.new) /\ NoRepeats(r.deleted)
        /\ (last'.op = "sync" /\ last'.raised = "none") =>
              \A r \in last'.ret :
                  /\ r.updated = Cardinality(Range(
                        detect_changes(json_mirrors, fs,
                                       Prepared(fs, last'.args)).ret.modified))
                  /\ r.added = Cardinality(Range(
                        detect_changes(json_mirrors, fs,
                                       Prepared(fs, last'.args)).ret.new))
                  /\ r.removed = Cardinality(Range(
                        detect_changes(json_mirrors, fs,
                                       Prepared(fs, last'.args)).ret.deleted))
      ]_vars

====
